---- MODULE Spec2Model ----
(***************************************************************************)
(* Playwright-to-Xray reporting glue of monsoor-ch/playwright-demo.        *)
(*                                                                         *)
(* The module models the reporter plugins (xray-reporter.js, its           *)
(* TypeScript twin, xray-reporter-full.js and the enhanced server          *)
(* reporter), the tracker clients they drive, the configuration managers   *)
(* and the pure helpers (extractTestKey, validateConfig, path.basename).   *)
(* The issue tracker is an environment: every request may succeed or       *)
(* fail; the only tracker state that is kept is the set of days for which  *)
(* a "Playwright Test Execution <day>" issue exists.                       *)
(*                                                                         *)
(* Strings are sequences of one-character strings, so that the regular     *)
(* expressions and path.basename are computed, not assumed.                *)
(***************************************************************************)
EXTENDS Integers, Sequences, FiniteSets, TLC

VARIABLES
  reporter,     \* which reporter class the runner loaded
  options,      \* the reporter's options object
  testResults,  \* this.testResults: a Map, kept in insertion order
  phase,        \* per test: "idle", "running" (onTestBegin called) or "ended"
  pc,           \* position of the runner / of the async onEnd
  idx,          \* index of the for-of loop in progress
  config,       \* XrayConfigManager.instance.config, NoConfig before construction
  log,          \* requests the tracker has received, in order
  thrown,       \* reportToXray has rejected with an error
  onEndResult,  \* "pending", "resolved" or "rejected"
  counts,       \* the success counters of the server reporter's two loops
  keyFile,      \* content of <outputDir>/xray-execution-key.txt, NoKey if absent
  resultsFile,  \* summary in <outputDir>/xray-server-results.json, NoFile if absent
  execKey,      \* testExecutionKey held by reportToXray, NoKey if not obtained
  execDays,     \* tracker: days for which a "Playwright Test Execution <day>" issue exists
  created,      \* tracker: number of issues of type Test Execution created so far
  day,          \* the calendar day new Date() reports
  call          \* a call of a pure helper: its input and, once returned, its output

vars == <<reporter, options, testResults, phase, pc, idx, config, log, thrown,
          onEndResult, counts, keyFile, resultsFile, execKey, execDays, created, day, call>>

(***************************************************************************)
(* Bounds of the model.                                                    *)
(***************************************************************************)
MaxTitleLen == 4
MaxFileLen == 4
MaxDay == 1
MaxTimeoutMs == 3
MaxPollIntervalMs == 2
MaxBlobSize == 1
MaxBodyLen == 2
MaxCalls == 4
MaxTryCalls == 3
MaxAuthCalls == 3
MaxNow == 3
MaxStatusResults == 3
MaxExecTests == 3
MaxFinalResults == 3

(***************************************************************************)
(* Strings.                                                                *)
(***************************************************************************)
Upper == {"P"}
Digit == {"1"}
TitleChars == {"P", "1", "-", ":", "x"}
FileChars == {"P", "1", "-", "/", "x"}

RECURSIVE SeqsUpTo(_, _)
SeqsUpTo(S, n) ==
  IF n = 0 THEN {<<>>}
  ELSE LET shorter == SeqsUpTo(S, n - 1)
       IN  shorter \cup {Append(s, c) : s \in {t \in shorter : Len(t) = n - 1}, c \in S}

IsPrefix(p, s) == Len(p) <= Len(s) /\ SubSeq(s, 1, Len(p)) = p

\* Index of the last element of the longest run of characters of class C
\* that starts at position i (i - 1 when s[i] is not in C): what a greedy
\* C+ consumes.
RECURSIVE RunEnd(_, _, _)
RunEnd(s, i, C) ==
  IF i <= Len(s) /\ s[i] \in C THEN RunEnd(s, i + 1, C) ELSE i - 1

\* JavaScript's null (a failed match, a missing key).
Null == <<"null">>

\* s.match(/^([A-Z]+-\d+):/) and s.match(/^([A-Z]+-\d+)/): the captured
\* group, or Null when the expression does not match.  Neither "-" nor
\* ":" is in a class next to it, so the greedy scan never backtracks.
MatchKey(s, colon) ==
  LET u == RunEnd(s, 1, Upper)
      d == RunEnd(s, u + 2, Digit)
  IN  IF u < 1 \/ u + 1 > Len(s) \/ s[u + 1] # "-" \/ d < u + 2 THEN Null
      ELSE IF colon /\ (d + 1 > Len(s) \/ s[d + 1] # ":") THEN Null
      ELSE SubSeq(s, 1, d)

\* path.basename(p) of Node's posix path module: trailing separators are
\* dropped, then everything up to the last separator.
RECURSIVE StripTrailingSep(_)
StripTrailingSep(p) ==
  IF Len(p) > 0 /\ p[Len(p)] = "/" THEN StripTrailingSep(SubSeq(p, 1, Len(p) - 1)) ELSE p

RECURSIVE LastSep(_, _)
LastSep(p, i) == IF i = 0 \/ p[i] = "/" THEN i ELSE LastSep(p, i - 1)

basename(p) ==
  LET q == StripTrailingSep(p)
  IN  SubSeq(q, LastSep(q, Len(q)) + 1, Len(q))

(***************************************************************************)
(* extractTestKey.  A test is [title, file, annotations]; file is <<>>     *)
(* when test.location is undefined.                                        *)
(***************************************************************************)
RECURSIVE FindXray(_, _)
FindXray(anns, i) ==
  IF i > Len(anns) THEN 0
  ELSE IF anns[i].type = "xray" THEN i ELSE FindXray(anns, i + 1)

\* extractTestKey with the two lookups in the opposite order.
extractTestKeyFileFirst(test) ==
  LET titleMatch == MatchKey(test.title, TRUE)
      fileMatch == MatchKey(basename(test.file), FALSE)
  IN  IF fileMatch # Null THEN fileMatch
      ELSE IF titleMatch # Null THEN titleMatch
      ELSE Null

\* XrayReporter.extractTestKey of xray-reporter.js (and of the full and
\* server reporters, which repeat it verbatim).
extractTestKey(test) ==
  LET titleMatch == MatchKey(test.title, TRUE)
      fileMatch == MatchKey(basename(test.file), FALSE)
  IN  IF titleMatch # Null THEN titleMatch
      ELSE IF fileMatch # Null THEN fileMatch
      ELSE Null

\* XrayReporter.extractTestKey of the TypeScript reporter: annotations are
\* consulted between the title and the file name.
extractTestKeyTs(test) ==
  LET titleMatch == MatchKey(test.title, TRUE)
      x == FindXray(test.annotations, 1)
      fileMatch == MatchKey(basename(test.file), FALSE)
  IN  IF titleMatch # Null THEN titleMatch
      ELSE IF x # 0 THEN test.annotations[x].description
      ELSE IF fileMatch # Null THEN fileMatch
      ELSE Null

\* if (testKey): null and the empty string are falsy.
Truthy(v) == v # Null /\ v # <<>>

(***************************************************************************)
(* The tests of the run.  Test 1 carries its key in the title, test 2 in   *)
(* the name of its file, test 3 only in an annotation of type "xray".      *)
(***************************************************************************)
Tests == {1, 2, 3}

TestOf(t) ==
  CASE t = 1 -> [title |-> <<"P", "-", "1", ":", "x">>,
                 file |-> <<"x", "/", "x">>,
                 annotations |-> <<>>]
    [] t = 2 -> [title |-> <<"x", "x">>,
                 file |-> <<"x", "/", "P", "-", "1", "1", "x">>,
                 annotations |-> <<>>]
    [] t = 3 -> [title |-> <<"x">>,
                 file |-> <<"x", "/", "x">>,
                 annotations |-> <<[type |-> "skip", description |-> <<"x">>],
                                   [type |-> "xray", description |-> <<"P", "-", "1", "1", "1">>]>>]

\* "XrayReporterServer" is the enhanced server reporter, "XrayReporterServerJs"
\* the class of the same name in xray-reporter-server.js.
Reporters == {"XrayReporter", "XrayReporterTs", "XrayReporterFull", "XrayReporterServer",
              "XrayReporterServerJs"}

\* The extractTestKey method of reporter class r.
ExtractKey(r, test) ==
  IF r = "XrayReporterTs" THEN extractTestKeyTs(test) ELSE extractTestKey(test)

KeyOf(r, t) == ExtractKey(r, TestOf(t))

\* mapTestStatus: the runner's status to the tracker's.
RunnerStatuses == {"passed", "failed", "skipped", "timedOut", "interrupted"}

\* mapTestStatus without its default branch doing the work of a case: a
\* status the switch does not name is passed through.
mapTestStatusNoDefault(playwrightStatus) ==
  CASE playwrightStatus = "passed" -> "PASSED"
    [] playwrightStatus = "failed" -> "FAILED"
    [] playwrightStatus = "skipped" -> "SKIPPED"
    [] playwrightStatus = "timedOut" -> "FAILED"
    [] OTHER -> playwrightStatus

mapTestStatus(playwrightStatus) ==
  CASE playwrightStatus = "passed" -> "PASSED"
    [] playwrightStatus = "failed" -> "FAILED"
    [] playwrightStatus = "skipped" -> "SKIPPED"
    [] playwrightStatus = "timedOut" -> "FAILED"
    [] OTHER -> "FAILED"

\* Map.prototype.set on a Map kept as the sequence of its entries: an
\* existing id keeps its position, a new id goes last.
RECURSIVE MapIndex(_, _, _)
MapIndex(m, id, i) ==
  IF i > Len(m) THEN 0 ELSE IF m[i].id = id THEN i ELSE MapIndex(m, id, i + 1)

\* A map that adds an entry at every set.
MapSetAppend(m, id, value) ==
  Append(m, [id |-> id, testKey |-> value.testKey, status |-> value.status])

MapSet(m, id, value) ==
  LET i == MapIndex(m, id, 1)
      entry == [id |-> id, testKey |-> value.testKey, status |-> value.status]
  IN  IF i = 0 THEN Append(m, entry) ELSE [m EXCEPT ![i] = entry]

MapHas(m, id) == MapIndex(m, id, 1) # 0

MapGet(m, id) == m[MapIndex(m, id, 1)]

(***************************************************************************)
(* Configuration: XrayConfigManager.                                       *)
(***************************************************************************)
RequiredFields == {"jiraBaseUrl", "jiraUsername", "jiraApiToken", "projectKey"}

\* A variable of process.env: not set, set to the empty string, or set.
EnvValues == {"undefined", "", "v"}

NoConfig == [f \in {} |-> ""]

\* process.env.X || ''
OrEmpty(v) == IF v = "undefined" \/ v = "" THEN "" ELSE v

\* The constructor: every required field is process.env.<NAME> || ''.
XrayConfigManager(env) == [f \in RequiredFields |-> OrEmpty(env[f])]

\* validateConfig with projectKey left out of requiredFields.
validateConfigThree(c) ==
  \A f \in RequiredFields \ {"projectKey"} : c[f] # ""

\* validateConfig: requiredFields.every(field => this.config[field]).
validateConfig(c) ==
  \A f \in RequiredFields : c[f] # ""

(***************************************************************************)
(* Keys, files and the record of what the tracker received.                *)
(***************************************************************************)
NoKey == <<>>

\* The key of an existing test execution given as options.testExecutionKey.
GivenKey == <<"E", 0>>

\* The key the tracker gives to the n-th test execution it creates.
NewExecKey(n) == <<"E", n>>

\* Keys the tracker answers with: the issue a description search matches,
\* and the issue a create request makes.
MatchedKey == <<"P", "-", "7">>
NewCaseKey == <<"P", "-", "9">>

NoFile == [written |-> FALSE, totalTests |-> 0, testCasesProcessed |-> 0,
           testExecutionsCreated |-> 0]

NoCall == [op |-> "none"]

\* One entry of log: a client method entered ("ensure") or a request sent.
\*   find        GET /issue/<key>
\*   search      POST /search for a test case by description
\*   createCase  POST /issue, issuetype Test
\*   summary     updateTestCaseSummary: a lookup and PUT /issue/<key> when
\*               the summary differs
\*   status      the status update of a test: PUT /issue/<key> fields.status,
\*               or the server client's test run carrying the status
\*   comment     POST /issue/<key>/comment
\*   searchExec  POST /search for today's test execution
\*   createExec  POST /issue issuetype Test Execution, or POST /testexecution
\*   add         POST /execution: a result added to a test execution
\*   execStatus  PUT /execution/<key>: the final status of the execution
Ev(op, t, e) == [op |-> op, test |-> t, exec |-> e]

RECURSIVE Concat(_)
Concat(ss) == IF ss = <<>> THEN <<>> ELSE Head(ss) \o Concat(Tail(ss))

N == Len(testResults)

Ids == 1..N

\* Methods the client classes define.
ClientOf(r) ==
  CASE r = "XrayReporter" -> "XrayClientReadOnly"
    [] r = "XrayReporterTs" -> "XrayClient"
    [] r = "XrayReporterFull" -> "XrayClientFull"
    [] r = "XrayReporterServer" -> "XrayServerClient"
    [] r = "XrayReporterServerJs" -> "XrayServerClient"

Methods(client) ==
  CASE client = "XrayClientReadOnly" ->
         {"findTestCase", "createTestExecution", "logTestResults"}
    [] client = "XrayClient" ->
         {"createTestExecution", "addTestsToExecution", "updateTestExecutionStatus"}
    [] client = "XrayClientFull" ->
         {"findTestCase", "createTestCase", "ensureTestCaseExists", "updateTestCaseStatus",
          "updateAllTestCaseStatuses", "createTestExecution", "addTestExecutionComment"}
    [] client = "XrayServerClient" ->
         {"findTestCase", "findTestCaseByDescription", "updateTestCaseSummary",
          "createTestCase", "ensureTestCaseExists", "updateTestCaseStatus",
          "updateAllTestCaseStatuses", "createTestExecution"}

\* Clients whose constructor calls config.getJiraApiUrlV2().
UsesApiV2(client) == client \in {"XrayClientReadOnly", "XrayClientFull", "XrayServerClient"}

\* The two XrayReporter classes, for which XRAY_INTEGRATION.md documents
\* the option testExecutionKey; the runs of the other reporters are taken
\* without it.
TakesXrayReporterOptions(r) == r \in {"XrayReporter", "XrayReporterTs"}

\* What the tracker holds of today's test executions when the run ends:
\* none, or the one an earlier run of the same day created.  Only the
\* server client searches for it.
EarlierRun == {[day |-> 0, key |-> GivenKey]}

(***************************************************************************)
(* Construction and the per-test callbacks.                                *)
(***************************************************************************)
Init ==
  /\ reporter \in Reporters
  /\ options \in [outputDir : BOOLEAN, testExecutionKey : {NoKey, GivenKey}]
  /\ options.testExecutionKey # NoKey => TakesXrayReporterOptions(reporter)
  /\ testResults = <<>>
  /\ phase = [t \in Tests |-> "idle"]
  /\ pc = "run"
  /\ idx = 0
  /\ config = NoConfig
  /\ log = <<>>
  /\ thrown = FALSE
  /\ onEndResult = "pending"
  /\ counts = <<0, 0>>
  /\ keyFile = NoKey
  /\ resultsFile = NoFile
  /\ execKey = NoKey
  /\ execDays \in {{}, EarlierRun}
  /\ execDays # {} => ClientOf(reporter) = "XrayServerClient"
  /\ created = 0
  /\ day = 0
  /\ call = NoCall

reportVars == <<config, log, thrown, onEndResult, counts, keyFile, resultsFile, execKey,
                execDays, created, day, idx>>

onTestBegin(t) ==
  /\ pc = "run"
  /\ phase[t] # "running"
  /\ phase' = [phase EXCEPT ![t] = "running"]
  /\ LET testKey == KeyOf(reporter, t)
     IN  testResults' =
           IF Truthy(testKey)
           THEN MapSet(testResults, t, [testKey |-> testKey, status |-> "EXECUTING"])
           ELSE testResults
  /\ UNCHANGED <<reporter, options, pc, call, reportVars>>

onTestEnd(t, playwrightStatus) ==
  /\ pc = "run"
  /\ phase[t] = "running"
  /\ phase' = [phase EXCEPT ![t] = "ended"]
  /\ LET testKey == KeyOf(reporter, t)
     IN  testResults' =
           IF Truthy(testKey)
           THEN MapSet(testResults, t,
                       [testKey |-> testKey, status |-> mapTestStatus(playwrightStatus)])
           ELSE testResults
  /\ UNCHANGED <<reporter, options, pc, call, reportVars>>

(***************************************************************************)
(* onEnd and reportToXray.  The async function is cut at its awaits: one   *)
(* action per awaited client call, together with the synchronous code      *)
(* that follows it up to the next await.                                   *)
(***************************************************************************)
fixed == <<reporter, options, phase, call>>

\* reportToXray's catch block: log the error and throw it again.
Rejects == thrown' = TRUE /\ pc' = "catch" /\ UNCHANGED onEndResult

\* reportToXray returns and onEnd's try block ends.
Completes == pc' = "done" /\ onEndResult' = "resolved" /\ UNCHANGED thrown

\* The first awaited call of reportToXray / reportToXrayServer, with the
\* server reporter's step 1 left out.
FirstStepNoEnsure(r) ==
  CASE r = "XrayReporter" -> "logTestResults"
    [] r = "XrayReporterTs" ->
         IF options.testExecutionKey # NoKey THEN "addTestsToExecution"
         ELSE "createTestExecution"
    [] r = "XrayReporterFull" -> "updateAllTestCaseStatuses"
    [] r = "XrayReporterServer" -> "updateTestCaseStatus"
    [] r = "XrayReporterServerJs" -> "updateTestCaseStatus"

\* The first awaited call of reportToXray / reportToXrayServer.
FirstStep(r) ==
  CASE r = "XrayReporter" -> "logTestResults"
    [] r = "XrayReporterTs" ->
         IF options.testExecutionKey # NoKey THEN "addTestsToExecution"
         ELSE "createTestExecution"
    [] r = "XrayReporterFull" -> "updateAllTestCaseStatuses"
    [] r = "XrayReporterServer" -> "ensureTestCaseExists"
    [] r = "XrayReporterServerJs" -> "updateTestCaseStatus"

\* fs.writeFileSync(<outputDir>/xray-execution-key.txt, key) when
\* options.outputDir is set, then the end of reportToXray.
SaveKey(key, fsOk) ==
  IF options.outputDir /\ ~fsOk
  THEN Rejects /\ UNCHANGED keyFile
  ELSE Completes /\ keyFile' = IF options.outputDir THEN key ELSE keyFile

\* onEnd up to its first await.  process.env is read when the
\* XrayConfigManager singleton is constructed; which build of the class is
\* loaded decides whether getJiraApiUrlV2 exists (v2): the TypeScript
\* source lacks it, the compiled scripts/config/xray-config.js has it.
onEnd ==
  /\ pc = "run"
  /\ \E env \in [RequiredFields -> EnvValues], v2 \in BOOLEAN :
       /\ config' = XrayConfigManager(env)
       /\ IF ~validateConfig(config') \/ N = 0
          THEN Completes /\ UNCHANGED <<idx, execKey>>
          ELSE IF UsesApiV2(ClientOf(reporter)) /\ ~v2
          THEN Rejects /\ UNCHANGED <<idx, execKey>>
          ELSE /\ pc' = FirstStep(reporter)
               /\ idx' = 1
               /\ execKey' = IF reporter = "XrayReporterTs" THEN options.testExecutionKey
                             ELSE NoKey
               /\ UNCHANGED <<thrown, onEndResult>>
  /\ UNCHANGED <<fixed, testResults, log, counts, keyFile, resultsFile, execDays, created, day>>

\* onEnd's catch block with the error thrown on.
onEndCatchRethrows ==
  /\ pc = "catch"
  /\ pc' = "done"
  /\ onEndResult' = "rejected"
  /\ UNCHANGED <<fixed, testResults, config, log, thrown, counts, keyFile, resultsFile,
                 execKey, execDays, created, day, idx>>

\* onEnd's catch block: the error is logged, onEnd returns.
onEndCatch ==
  /\ pc = "catch"
  /\ pc' = "done"
  /\ onEndResult' = "resolved"
  /\ UNCHANGED <<fixed, testResults, config, log, thrown, counts, keyFile, resultsFile,
                 execKey, execDays, created, day, idx>>

\* The calendar day changes while onEnd is in progress.  The day is read
\* only by ensureTestExecutionExists, so it is counted from the start of
\* the loop that calls it.
Tick ==
  /\ pc = "updateTestCaseStatus"
  /\ day < MaxDay
  /\ day' = day + 1
  /\ UNCHANGED <<fixed, testResults, pc, idx, config, log, thrown, onEndResult, counts,
                 keyFile, resultsFile, execKey, execDays, created>>

FindAll == [i \in Ids |-> Ev("find", testResults[i].id, NoKey)]

(***************************************************************************)
(* xray-reporter.js with XrayClientReadOnly.                               *)
(***************************************************************************)
\* XrayClientReadOnly.logTestResults: one lookup per result, never throws.
logTestResults ==
  /\ pc = "logTestResults"
  /\ log' = log \o FindAll
  /\ pc' = "createTestExecution"
  /\ UNCHANGED <<fixed, testResults, config, thrown, onEndResult, counts, keyFile,
                 resultsFile, execKey, execDays, created, day, idx>>

\* XrayClientReadOnly.createTestExecution: found are the results whose test
\* case the tracker returns; ok is the answer to POST /testexecution.
createTestExecutionReadOnly ==
  /\ pc = "createTestExecution"
  /\ reporter = "XrayReporter"
  /\ \E found \in SUBSET Ids, ok \in BOOLEAN :
       IF found = {}
       THEN log' = log \o FindAll /\ Rejects /\ UNCHANGED <<execKey, created>>
       ELSE IF ok
       THEN /\ log' = log \o FindAll \o <<Ev("createExec", 0, NewExecKey(created + 1))>>
            /\ created' = created + 1
            /\ execKey' = NewExecKey(created + 1)
            /\ pc' = "updateTestExecutionStatus"
            /\ UNCHANGED <<thrown, onEndResult>>
       ELSE /\ log' = log \o FindAll \o <<Ev("createExec", 0, NoKey)>>
            /\ Rejects
            /\ UNCHANGED <<execKey, created>>
  /\ UNCHANGED <<fixed, testResults, config, counts, keyFile, resultsFile, execDays, day, idx>>

\* await xrayClient.updateTestExecutionStatus(key, finalStatus) and the rest
\* of reportToXray.  Calling a method the client class does not define is a
\* TypeError.
updateTestExecutionStatus ==
  /\ pc = "updateTestExecutionStatus"
  /\ IF "updateTestExecutionStatus" \notin Methods(ClientOf(reporter))
     THEN Rejects /\ UNCHANGED <<log, keyFile>>
     ELSE \E ok \in BOOLEAN, fsOk \in BOOLEAN :
            /\ log' = Append(log, Ev("execStatus", 0, execKey))
            /\ IF ok THEN SaveKey(execKey, fsOk) ELSE Rejects /\ UNCHANGED keyFile
  /\ UNCHANGED <<fixed, testResults, config, counts, resultsFile, execKey, execDays,
                 created, day, idx>>

(***************************************************************************)
(* The TypeScript XrayReporter with XrayClient (xray-client.ts).           *)
(***************************************************************************)
Min(a, b) == IF a < b THEN a ELSE b

\* XrayClient.addTestsToExecution: one POST /execution per result until one
\* fails; n is the number of posts the tracker accepts.
AddEvents(key, n) == [i \in 1..Min(n + 1, N) |-> Ev("add", testResults[i].id, key)]

\* reportToXray with options.testExecutionKey set.
addTestsToExecution ==
  /\ pc = "addTestsToExecution"
  /\ \E n \in 0..N :
       /\ log' = log \o AddEvents(execKey, n)
       /\ IF n < N THEN Rejects
          ELSE pc' = "updateTestExecutionStatus" /\ UNCHANGED <<thrown, onEndResult>>
  /\ UNCHANGED <<fixed, testResults, config, counts, keyFile, resultsFile, execKey,
                 execDays, created, day, idx>>

\* XrayClient.createTestExecution: POST /issue of type Test Execution, then
\* addTestsToExecution; this.testExecutionKey is assigned on return only.
createTestExecutionTs ==
  /\ pc = "createTestExecution"
  /\ reporter = "XrayReporterTs"
  /\ \E ok \in BOOLEAN, n \in 0..N :
       IF ~ok
       THEN /\ log' = Append(log, Ev("createExec", 0, NoKey))
            /\ Rejects
            /\ UNCHANGED <<execKey, created>>
       ELSE /\ log' = Append(log, Ev("createExec", 0, NewExecKey(created + 1)))
                        \o AddEvents(NewExecKey(created + 1), n)
            /\ created' = created + 1
            /\ IF n < N
               THEN Rejects /\ UNCHANGED execKey
               ELSE /\ execKey' = NewExecKey(created + 1)
                    /\ pc' = "updateTestExecutionStatus"
                    /\ UNCHANGED <<thrown, onEndResult>>
  /\ UNCHANGED <<fixed, testResults, config, counts, keyFile, resultsFile, execDays, day, idx>>

(***************************************************************************)
(* xray-reporter-full.js with XrayClientFull.                              *)
(***************************************************************************)
\* XrayClientFull.updateAllTestCaseStatuses: per result a lookup and, when
\* the test case is found, PUT /issue/<key> with the status; never throws.
updateAllTestCaseStatuses ==
  /\ pc = "updateAllTestCaseStatuses"
  /\ \E found \in SUBSET Ids :
       log' = log \o Concat([i \in Ids |->
                 <<Ev("find", testResults[i].id, NoKey)>>
                 \o IF i \in found THEN <<Ev("status", testResults[i].id, NoKey)>> ELSE <<>>])
  /\ pc' = "addTestExecutionComment"
  /\ idx' = 1
  /\ UNCHANGED <<fixed, testResults, config, thrown, onEndResult, counts, keyFile,
                 resultsFile, execKey, execDays, created, day>>

\* One turn of the loop of step 2: await xrayClient.addTestExecutionComment.
\* XrayClientFull's method never throws; calling it on a client that does
\* not define it is a TypeError.
addTestExecutionComment ==
  /\ pc = "addTestExecutionComment"
  /\ IF "addTestExecutionComment" \notin Methods(ClientOf(reporter))
     THEN Rejects /\ UNCHANGED <<log, idx>>
     ELSE /\ log' = Append(log, Ev("comment", testResults[idx].id, NoKey))
          /\ IF idx < N THEN idx' = idx + 1 /\ UNCHANGED pc
             ELSE pc' = "createTestExecution" /\ UNCHANGED idx
          /\ UNCHANGED <<thrown, onEndResult>>
  /\ UNCHANGED <<fixed, testResults, config, counts, keyFile,
                 resultsFile, execKey, execDays, created, day>>

\* XrayClientFull.createTestExecution and the rest of reportToXray.  Each
\* result's test case is ensured (found, or created; a failed creation
\* throws); n is the first result whose creation fails, N + 1 if none.
createTestExecutionFull ==
  /\ pc = "createTestExecution"
  /\ reporter = "XrayReporterFull"
  /\ \E n \in 1..(N + 1), found \in SUBSET Ids, ok \in BOOLEAN, fsOk \in BOOLEAN :
       /\ n <= N => n \notin found
       /\ LET ensured == Concat([i \in 1..Min(n, N) |->
                            <<Ev("ensure", testResults[i].id, NoKey),
                              Ev("find", testResults[i].id, NoKey)>>
                            \o IF i \in found THEN <<>>
                               ELSE <<Ev("createCase", testResults[i].id, NoKey)>>])
          IN  IF n <= N
              THEN log' = log \o ensured /\ Rejects /\ UNCHANGED <<execKey, created, keyFile>>
              ELSE IF ~ok
              THEN /\ log' = log \o ensured \o <<Ev("createExec", 0, NoKey)>>
                   /\ Rejects
                   /\ UNCHANGED <<execKey, created, keyFile>>
              ELSE /\ log' = log \o ensured \o <<Ev("createExec", 0, NewExecKey(created + 1))>>
                   /\ created' = created + 1
                   /\ execKey' = NewExecKey(created + 1)
                   /\ SaveKey(NewExecKey(created + 1), fsOk)
  /\ UNCHANGED <<fixed, testResults, config, counts, resultsFile, execDays, day, idx>>

(***************************************************************************)
(* The enhanced XrayReporterServer with XrayServerClient.                  *)
(***************************************************************************)
\* How XrayServerClient.ensureTestCaseExists ends: the test case is found
\* by key, found by description, created, or neither found nor created.
EnsureOutcomes == {"byKey", "byDescription", "created", "failed"}

\* What ensureTestCaseExists(t) does: the lookup by key, then the search by
\* description and the creation as far as they are reached; "summary" is
\* the call of updateTestCaseSummary for a test case that was found.
EnsureEvents(t, outcome) ==
  <<Ev("ensure", t, NoKey), Ev("find", t, NoKey)>>
  \o (CASE outcome = "byKey" -> <<Ev("summary", t, NoKey)>>
        [] outcome = "byDescription" -> <<Ev("search", t, NoKey), Ev("summary", t, NoKey)>>
        [] OTHER -> <<Ev("search", t, NoKey), Ev("createCase", t, NoKey)>>)

\* The key ensureTestCaseExists returns.
EnsuredKey(testKey, outcome) ==
  CASE outcome = "byKey" -> testKey
    [] outcome = "byDescription" -> MatchedKey
    [] outcome = "created" -> NewCaseKey
    [] OTHER -> Null

\* One turn of the loop of step 1 of reportToXrayServer.
ensureTestCaseExists ==
  /\ pc = "ensureTestCaseExists"
  /\ \E outcome \in EnsureOutcomes :
       LET test == testResults[idx]
           testCaseKey == EnsuredKey(test.testKey, outcome)
       IN  /\ log' = log \o EnsureEvents(test.id, outcome)
           /\ IF testCaseKey # Null
              THEN /\ counts' = <<counts[1] + 1, counts[2]>>
                   /\ testResults' = [testResults EXCEPT ![idx].testKey = testCaseKey]
              ELSE UNCHANGED <<counts, testResults>>
  /\ IF idx < N THEN idx' = idx + 1 /\ UNCHANGED pc
     ELSE pc' = "updateTestCaseStatus" /\ idx' = 1
  /\ UNCHANGED <<fixed, config, thrown, onEndResult, keyFile, resultsFile, execKey,
                 execDays, created, day>>

\* XrayServerClient.ensureTestExecutionExists looks for an issue whose
\* summary names today; these are the ones the tracker holds.
TodaysExecutions == {e \in execDays : e.day = day}

\* One turn of the loop of step 2 of reportToXrayServer:
\* XrayServerClient.updateTestCaseStatus, which never throws, and after the
\* last turn the summary and the results file.  In xray-reporter-server.js
\* the same turns are those of XrayServerClient.updateAllTestCaseStatuses
\* (step 1), and step 2, the comments, follows.
\*   found     findTestCase returns the test case
\*   searchOk  the search for today's test execution is answered
\*   createOk  POST /issue (Test Execution) is accepted
\*   runOk     POST /issue (the test run with the status) is accepted
updateTestCaseStatus ==
  /\ pc = "updateTestCaseStatus"
  /\ \E found \in BOOLEAN, searchOk \in BOOLEAN, createOk \in BOOLEAN,
        runOk \in BOOLEAN, fsOk \in BOOLEAN :
       LET t == testResults[idx].id
           creates == found /\ searchOk /\ TodaysExecutions = {}
           key == IF ~(found /\ searchOk) THEN NoKey
                  ELSE IF TodaysExecutions # {} THEN (CHOOSE e \in TodaysExecutions : TRUE).key
                  ELSE IF createOk THEN NewExecKey(created + 1)
                  ELSE NoKey
           success == key # NoKey /\ runOk
           statusCount == counts[2] + (IF success THEN 1 ELSE 0)
       IN  /\ log' = log \o <<Ev("find", t, NoKey)>>
                        \o (IF found THEN <<Ev("searchExec", 0, NoKey)>> ELSE <<>>)
                        \o (IF creates THEN <<Ev("createExec", 0, key)>> ELSE <<>>)
                        \o (IF key # NoKey THEN <<Ev("status", t, key)>> ELSE <<>>)
           /\ IF creates /\ createOk
              THEN /\ created' = created + 1
                   /\ execDays' = execDays \cup {[day |-> day, key |-> key]}
              ELSE UNCHANGED <<created, execDays>>
           /\ counts' = <<counts[1], statusCount>>
           /\ IF idx < N
              THEN idx' = idx + 1 /\ UNCHANGED <<pc, thrown, onEndResult, resultsFile>>
              ELSE IF reporter = "XrayReporterServerJs"
              THEN /\ pc' = "addTestExecutionComment"
                   /\ idx' = 1
                   /\ UNCHANGED <<thrown, onEndResult, resultsFile>>
              ELSE /\ UNCHANGED idx
                   /\ IF options.outputDir /\ ~fsOk
                      THEN Rejects /\ UNCHANGED resultsFile
                      ELSE /\ Completes
                           /\ resultsFile' =
                                 IF options.outputDir
                                 THEN [written |-> TRUE, totalTests |-> N,
                                       testCasesProcessed |-> counts[1],
                                       testExecutionsCreated |-> statusCount]
                                 ELSE resultsFile
  /\ UNCHANGED <<fixed, testResults, config, keyFile, execKey, day>>

(***************************************************************************)
(* The reporters' run.                                                     *)
(***************************************************************************)
Next ==
  \/ \E t \in Tests : onTestBegin(t)
  \/ \E t \in Tests, playwrightStatus \in RunnerStatuses : onTestEnd(t, playwrightStatus)
  \/ onEnd
  \/ onEndCatch
  \/ Tick
  \/ logTestResults
  \/ createTestExecutionReadOnly
  \/ updateTestExecutionStatus
  \/ addTestsToExecution
  \/ createTestExecutionTs
  \/ updateAllTestCaseStatuses
  \/ addTestExecutionComment
  \/ createTestExecutionFull
  \/ ensureTestCaseExists
  \/ updateTestCaseStatus

Spec == Init /\ [][Next]_vars

(***************************************************************************)
(* extractTestKey on its own: the runner hands a test to the method.       *)
(***************************************************************************)
\* The variables of the run, at rest.
AtRest ==
  /\ options = [outputDir |-> FALSE, testExecutionKey |-> NoKey]
  /\ testResults = <<>>
  /\ phase = [t \in Tests |-> "idle"]
  /\ pc = "run"
  /\ idx = 0
  /\ config = NoConfig
  /\ log = <<>>
  /\ thrown = FALSE
  /\ onEndResult = "pending"
  /\ counts = <<0, 0>>
  /\ keyFile = NoKey
  /\ resultsFile = NoFile
  /\ execKey = NoKey
  /\ execDays = {}
  /\ created = 0
  /\ day = 0

runVars == <<reporter, options, testResults, phase, pc, idx, config, log, thrown,
             onEndResult, counts, keyFile, resultsFile, execKey, execDays, created, day>>

Titles == SeqsUpTo(TitleChars, MaxTitleLen)

Files == SeqsUpTo(FileChars, MaxFileLen)

SampleTitles == {<<"x">>, <<"P", "-", "1">>, <<"P", "-", "1", ":">>}

SampleFiles == {<<>>, <<"x">>, <<"P", "-", "1", "1">>, <<"x", "/", "P", "-", "1", "1", "x">>}

SampleAnnotations ==
  {<<>>,
   <<[type |-> "xray", description |-> <<"P", "-", "1", "1", "1">>]>>,
   <<[type |-> "skip", description |-> <<"x">>], [type |-> "xray", description |-> <<>>]>>}

\* Every title with a sample file, every file with a sample title, and the
\* sample titles and files with every sample list of annotations.
KeyInputs ==
  {[title |-> ti, file |-> fi, annotations |-> <<>>] : ti \in Titles, fi \in SampleFiles}
  \cup
  {[title |-> ti, file |-> fi, annotations |-> <<>>] : ti \in SampleTitles, fi \in Files}
  \cup
  {[title |-> ti, file |-> fi, annotations |-> an] :
     ti \in SampleTitles, fi \in SampleFiles, an \in SampleAnnotations}

InitKey ==
  /\ AtRest
  /\ reporter \in {"XrayReporter", "XrayReporterTs"}
  /\ call \in {[op |-> "extractTestKey", test |-> test, returned |-> FALSE, result |-> Null] :
                 test \in KeyInputs}

CallExtractTestKey ==
  /\ call.op = "extractTestKey"
  /\ ~call.returned
  /\ call' = [call EXCEPT !.returned = TRUE, !.result = ExtractKey(reporter, call.test)]
  /\ UNCHANGED runVars

NextKey == CallExtractTestKey

SpecKey == InitKey /\ [][NextKey]_vars

(***************************************************************************)
(* Environment (scripts/config/environment.js): construction from          *)
(* process.env.                                                            *)
(***************************************************************************)
EnvNames == {"BASE_URL", "AZURE_STORAGE_CONNECTION_STRING", "EMAIL_USER", "EMAIL_PASSWORD",
             "SFTP_HOST", "SFTP_USERNAME"}

DefaultBaseUrl == "https://www.google.com"

\* process.env.X || fallback
OrElse(v, fallback) == IF v = "undefined" \/ v = "" THEN fallback ELSE v

\* The config object the constructor builds.
EnvironmentConfig(env) ==
  [baseUrl |-> OrElse(env["BASE_URL"], DefaultBaseUrl),
   azureConnectionString |-> OrElse(env["AZURE_STORAGE_CONNECTION_STRING"], ""),
   emailUser |-> OrElse(env["EMAIL_USER"], ""),
   emailPassword |-> OrElse(env["EMAIL_PASSWORD"], ""),
   sftpHost |-> OrElse(env["SFTP_HOST"], ""),
   sftpUsername |-> OrElse(env["SFTP_USERNAME"], "")]

\* Environment.validateConfig: the errors it collects and the warnings it
\* prints.
EnvironmentErrors(c) == IF c.baseUrl = "" THEN {"BASE_URL is required"} ELSE {}

EnvironmentWarnings(c) ==
  (IF c.azureConnectionString = "" THEN {"azure"} ELSE {})
  \cup (IF c.emailUser = "" \/ c.emailPassword = "" THEN {"email"} ELSE {})
  \cup (IF c.sftpHost = "" \/ c.sftpUsername = "" THEN {"sftp"} ELSE {})

InitEnv ==
  /\ AtRest
  /\ reporter = "XrayReporter"
  /\ call \in {[op |-> "Environment", env |-> env, returned |-> FALSE, threw |-> FALSE,
                  errors |-> {}, warnings |-> {}, baseUrl |-> ""] :
                 env \in [EnvNames -> EnvValues]}

\* new Environment(): the config is built, validateConfig runs and throws
\* when it has collected an error.
NewEnvironment ==
  /\ call.op = "Environment"
  /\ ~call.returned
  /\ LET c == EnvironmentConfig(call.env)
     IN  call' = [call EXCEPT !.returned = TRUE,
                              !.errors = EnvironmentErrors(c),
                              !.warnings = EnvironmentWarnings(c),
                              !.threw = EnvironmentErrors(c) # {},
                              !.baseUrl = c.baseUrl]
  /\ UNCHANGED runVars

NextEnv == NewEnvironment

SpecEnv == InitEnv /\ [][NextEnv]_vars

(***************************************************************************)
(* SftpClient.waitForFile.  The call in progress is kept in call: its      *)
(* arguments, Date.now() - startTime (now), the client's isConnected, and  *)
(* whether the file is on the server (present).                            *)
(***************************************************************************)
\* Time a request to the server may take, in the unit of the timeouts.
RequestTimes == {0, 1}

InitSftp ==
  /\ AtRest
  /\ reporter = "XrayReporter"
  /\ call \in {[op |-> "waitForFile", timeoutMs |-> tm, pollIntervalMs |-> pi, now |-> 0,
                pc |-> "while", isConnected |-> ic, present |-> pr, polls |-> 0,
                found |-> 0, errors |-> 0, result |-> FALSE, rejected |-> FALSE] :
                 tm \in 0..MaxTimeoutMs, pi \in 0..MaxPollIntervalMs,
                 ic \in BOOLEAN, pr \in BOOLEAN}

\* waitForFile's catch block with the error thrown on.
CheckFailedUncaught(c) == [c EXCEPT !.pc = "returned", !.rejected = TRUE]

\* waitForFile's catch block: warn, then wait for the poll interval.
CheckFailed(c) == [c EXCEPT !.pc = "wait", !.errors = c.errors + 1]

\* while (Date.now() - startTime < timeoutMs), and the return after the loop.
waitForFileLoop ==
  /\ call.op = "waitForFile"
  /\ call.pc = "while"
  /\ call' = IF call.now < call.timeoutMs
             THEN [call EXCEPT !.pc = "fileExists"]
             ELSE [call EXCEPT !.pc = "returned", !.result = FALSE]
  /\ UNCHANGED runVars

\* await this.fileExists(remotePath) and what waitForFile does with it.
\*   connects  ensureConnection succeeds (it throws otherwise, out of
\*             fileExists, into waitForFile's catch block)
\*   answers   client.exists answers (fileExists catches its error and
\*             returns false otherwise)
fileExists ==
  /\ call.op = "waitForFile"
  /\ call.pc = "fileExists"
  /\ \E connects \in BOOLEAN, answers \in BOOLEAN, d \in RequestTimes :
       LET c == [call EXCEPT !.now = call.now + d, !.polls = call.polls + 1]
       IN  call' =
             IF ~c.isConnected /\ ~connects THEN CheckFailed(c)
             ELSE IF answers /\ c.present
             THEN [c EXCEPT !.isConnected = TRUE, !.found = c.found + 1,
                            !.pc = "returned", !.result = TRUE]
             ELSE [c EXCEPT !.isConnected = TRUE, !.pc = "wait"]
  /\ UNCHANGED runVars

\* setTimeout(resolve, ms): Node sets a delay below 1 to 1.
TimerDelay(ms) == IF ms < 1 THEN 1 ELSE ms

\* await this.wait(pollIntervalMs), of SftpClient and of EmailValidator.
wait ==
  /\ call.op \in {"waitForFile", "waitForEmail"}
  /\ call.pc = "wait"
  /\ call' = [call EXCEPT !.pc = "while", !.now = call.now + TimerDelay(call.pollIntervalMs)]
  /\ UNCHANGED runVars

\* Somebody uploads the file while waitForFile is polling.
Upload ==
  /\ call.op = "waitForFile"
  /\ call.pc # "returned"
  /\ ~call.present
  /\ call' = [call EXCEPT !.present = TRUE]
  /\ UNCHANGED runVars

NextSftp == waitForFileLoop \/ fileExists \/ wait \/ Upload

SpecSftp == InitSftp /\ [][NextSftp]_vars

(***************************************************************************)
(* EmailValidator.waitForEmail.  call holds the arguments, the time since  *)
(* startTime (now) and the messages of the mailbox that match the          *)
(* criteria, in the order the server lists them (inbox).                   *)
(***************************************************************************)
Emails == {"a", "b"}

NoEmail == "null"

InitEmail ==
  /\ AtRest
  /\ reporter = "XrayReporter"
  /\ call \in {[op |-> "waitForEmail", timeoutMs |-> tm, pollIntervalMs |-> pi, now |-> 0,
                pc |-> "while", inbox |-> ib, searches |-> 0, matches |-> 0, errors |-> 0,
                seen |-> <<>>, result |-> NoEmail, rejected |-> FALSE] :
                 tm \in 0..MaxTimeoutMs, pi \in 0..MaxPollIntervalMs,
                 ib \in {<<>>, <<"b">>}}

\* The search keeping the newest message instead of the first.
SearchEmailsNewest(inbox) == IF inbox = <<>> THEN <<>> ELSE <<inbox[Len(inbox)]>>

\* searchEmails(criteria, 1) when the search succeeds: the messages found,
\* cut to maxResults = 1.
SearchEmailsOne(inbox) == SubSeq(inbox, 1, IF Len(inbox) < 1 THEN Len(inbox) ELSE 1)

\* while (Date.now() - startTime < timeoutMs), and the return after the loop.
waitForEmailLoop ==
  /\ call.op = "waitForEmail"
  /\ call.pc = "while"
  /\ call' = IF call.now < call.timeoutMs
             THEN [call EXCEPT !.pc = "searchEmails"]
             ELSE [call EXCEPT !.pc = "returned", !.result = NoEmail]
  /\ UNCHANGED runVars

\* await this.searchEmails(criteria, 1) and what waitForEmail does with it;
\* searchEmails logs and rethrows whatever the connection, the search or
\* the parsing of a message throws (ok = FALSE).
searchEmails ==
  /\ call.op = "waitForEmail"
  /\ call.pc = "searchEmails"
  /\ \E ok \in BOOLEAN, d \in RequestTimes :
       LET c == [call EXCEPT !.now = call.now + d, !.searches = call.searches + 1]
           emails == SearchEmailsOne(c.inbox)
       IN  call' =
             IF ~ok THEN [c EXCEPT !.pc = "wait", !.errors = c.errors + 1]
             ELSE IF Len(emails) > 0
             THEN [c EXCEPT !.pc = "returned", !.result = emails[1], !.seen = c.inbox,
                            !.matches = c.matches + 1]
             ELSE [c EXCEPT !.pc = "wait"]
  /\ UNCHANGED runVars

\* A message matching the criteria arrives in the mailbox.
Deliver ==
  /\ call.op = "waitForEmail"
  /\ call.pc # "returned"
  /\ \E e \in Emails :
       /\ \A i \in 1..Len(call.inbox) : call.inbox[i] # e
       /\ call' = [call EXCEPT !.inbox = Append(call.inbox, e)]
  /\ UNCHANGED runVars

\* The steps of the call itself, which the event loop runs whenever one is
\* due: awaited requests are answered and timers fire.
waitForEmail == waitForEmailLoop \/ searchEmails \/ wait

NextEmail == waitForEmail \/ Deliver

SpecEmail == InitEmail /\ [][NextEmail]_vars /\ WF_vars(waitForEmail)

(***************************************************************************)
(* AzureBlobClient: blobExists, getBlobInfo, downloadContent and           *)
(* validateFile on one blob.  call holds the method called, the state of   *)
(* the blob in the container and the arguments; an optional argument is    *)
(* [given, value].                                                         *)
(***************************************************************************)
BlobSizes == 0..MaxBlobSize

\* properties.contentType as the service reports it.
ServiceContentTypes == {"undefined", "text/plain", "image/png"}

ExpectedContentTypes == {"", "text/plain", "unknown"}

NotGiven == [given |-> FALSE, value |-> 0]

NoType == [given |-> FALSE, value |-> ""]

NoInfo == [size |-> 0, contentType |-> ""]

AzureMethods == {"blobExists", "getBlobInfo", "downloadContent", "validateFile"}

AzureCall(op, blob, expectedSize, expectedContentType) ==
  [op |-> op, pc |-> IF op = "validateFile" THEN "blobExists" ELSE op, blob |-> blob,
   expectedSize |-> expectedSize, expectedContentType |-> expectedContentType,
   result |-> FALSE, info |-> NoInfo, rejected |-> FALSE, error |-> "", failed |-> FALSE]

Blobs == [present : BOOLEAN, size : BlobSizes, contentType : ServiceContentTypes]

InitAzure ==
  /\ AtRest
  /\ reporter = "XrayReporter"
  /\ call \in
       {AzureCall(op, blob, NotGiven, NoType) :
          op \in AzureMethods \ {"validateFile"}, blob \in Blobs}
       \cup
       {AzureCall("validateFile", blob, es, ect) :
          blob \in Blobs,
          es \in {NotGiven} \cup {[given |-> TRUE, value |-> v] : v \in BlobSizes},
          ect \in {NoType} \cup {[given |-> TRUE, value |-> v] : v \in ExpectedContentTypes}}

\* blobExists with its catch block answering true.
ExistsAnswerErrorTrue(blob, ok) == ~ok \/ blob.present

\* What blobExists resolves to: blobClient.exists() when the service
\* answers (ok), false from the catch block otherwise.
ExistsAnswer(blob, ok) == ok /\ blob.present

\* The error blobClient.getProperties() / download() reject with, "" if
\* they succeed.
ServiceError(blob, ok) ==
  IF ~ok THEN "ServiceError" ELSE IF ~blob.present THEN "BlobNotFound" ELSE ""

\* The BlobInfo getBlobInfo builds from the properties.
BlobInfoOf(blob) ==
  [size |-> blob.size,
   contentType |-> IF blob.contentType = "undefined" THEN "unknown" ELSE blob.contentType]

SizeMismatch(expectedSize, info) == expectedSize.given /\ info.size # expectedSize.value

\* validateFile without the check of the content type.
ContentTypeUnchecked(expectedContentType, info) == FALSE

\* expectedContentType && blobInfo.contentType !== expectedContentType
ContentTypeMismatch(expectedContentType, info) ==
  /\ expectedContentType.given
  /\ expectedContentType.value # ""
  /\ info.contentType # expectedContentType.value

blobExists ==
  /\ call.op = "blobExists"
  /\ call.pc = "blobExists"
  /\ \E ok \in BOOLEAN :
       call' = [call EXCEPT !.pc = "returned", !.failed = ~ok,
                            !.result = ExistsAnswer(call.blob, ok)]
  /\ UNCHANGED runVars

getBlobInfo ==
  /\ call.op = "getBlobInfo"
  /\ call.pc = "getBlobInfo"
  /\ \E ok \in BOOLEAN :
       LET error == ServiceError(call.blob, ok)
       IN  call' = IF error # ""
                   THEN [call EXCEPT !.pc = "returned", !.failed = ~ok,
                                     !.rejected = TRUE, !.error = error]
                   ELSE [call EXCEPT !.pc = "returned", !.result = TRUE,
                                     !.info = BlobInfoOf(call.blob)]
  /\ UNCHANGED runVars

\* downloadContent: body says whether the response has a readableStreamBody.
downloadContent ==
  /\ call.op = "downloadContent"
  /\ call.pc = "downloadContent"
  /\ \E ok \in BOOLEAN, body \in BOOLEAN :
       LET error == IF ServiceError(call.blob, ok) # "" THEN ServiceError(call.blob, ok)
                    ELSE IF ~body THEN "No content available for download"
                    ELSE ""
       IN  call' = IF error # ""
                   THEN [call EXCEPT !.pc = "returned", !.failed = ~ok,
                                     !.rejected = TRUE, !.error = error]
                   ELSE [call EXCEPT !.pc = "returned", !.result = TRUE]
  /\ UNCHANGED runVars

\* validateFile up to its second await: the existence check.
validateFileExists ==
  /\ call.op = "validateFile"
  /\ call.pc = "blobExists"
  /\ \E ok \in BOOLEAN :
       call' = IF ExistsAnswer(call.blob, ok)
               THEN [call EXCEPT !.pc = "getBlobInfo"]
               ELSE [call EXCEPT !.pc = "returned", !.failed = ~ok, !.result = FALSE]
  /\ UNCHANGED runVars

\* validateFile from await this.getBlobInfo(blobName) to its return.
validateFileInfo ==
  /\ call.op = "validateFile"
  /\ call.pc = "getBlobInfo"
  /\ \E ok \in BOOLEAN :
       LET error == ServiceError(call.blob, ok)
           info == BlobInfoOf(call.blob)
       IN  call' =
             IF error # ""
             THEN [call EXCEPT !.pc = "returned", !.failed = TRUE, !.error = error,
                               !.result = FALSE]
             ELSE [call EXCEPT !.pc = "returned", !.info = info,
                               !.result = /\ ~SizeMismatch(call.expectedSize, info)
                                          /\ ~ContentTypeMismatch(call.expectedContentType, info)]
  /\ UNCHANGED runVars

\* Somebody deletes the blob while validateFile is between its two requests.
DeleteBlob ==
  /\ call.op = "validateFile"
  /\ call.pc = "getBlobInfo"
  /\ call.blob.present
  /\ call' = [call EXCEPT !.blob.present = FALSE]
  /\ UNCHANGED runVars

NextAzure ==
  \/ blobExists
  \/ getBlobInfo
  \/ downloadContent
  \/ validateFileExists
  \/ validateFileInfo
  \/ DeleteBlob

SpecAzure == InitAzure /\ [][NextAzure]_vars

(***************************************************************************)
(* EmailValidator.searchEmails and validateEmailContent.  call holds the   *)
(* method called, its arguments and the bodies of the messages of the      *)
(* mailbox that match the criteria (inbox).                                *)
(***************************************************************************)
BodyChars == {"a", "b"}

Bodies == SeqsUpTo(BodyChars, MaxBodyLen)

Inboxes == {<<>>} \cup {<<b>> : b \in Bodies} \cup {<<b, <<"a">>>> : b \in Bodies}

MaxResultsArgs == {1, 2}

\* searchResults.slice(0, maxResults)
SearchEmails(inbox, maxResults) ==
  SubSeq(inbox, 1, IF Len(inbox) < maxResults THEN Len(inbox) ELSE maxResults)

\* String.prototype.includes
Includes(body, content) ==
  \E i \in 0..(Len(body) - Len(content)) : SubSeq(body, i + 1, i + Len(content)) = content

\* exactMatch ? email.body === expectedContent : email.body.includes(expectedContent)
ContentMatches(body, expectedContent, exactMatch) ==
  IF exactMatch THEN body = expectedContent ELSE Includes(body, expectedContent)

InitEmailContent ==
  /\ AtRest
  /\ reporter = "XrayReporter"
  /\ call \in
       {[op |-> "searchEmails", pc |-> "called", inbox |-> ib, maxResults |-> mr,
         expectedContent |-> <<>>, exactMatch |-> FALSE, emails |-> <<>>,
         result |-> FALSE, failed |-> FALSE, rejected |-> FALSE] :
          ib \in Inboxes, mr \in MaxResultsArgs}
       \cup
       {[op |-> "validateEmailContent", pc |-> "called", inbox |-> ib, maxResults |-> 1,
         expectedContent |-> ec, exactMatch |-> em, emails |-> <<>>,
         result |-> FALSE, failed |-> FALSE, rejected |-> FALSE] :
          ib \in Inboxes, ec \in Bodies, em \in BOOLEAN}

\* validateEmailContent's catch block with the error thrown on.
ValidationErrorRethrown(c) == [c EXCEPT !.pc = "returned", !.failed = TRUE, !.rejected = TRUE]

\* validateEmailContent's catch block: log the error, return false.
ValidationError(c) == [c EXCEPT !.pc = "returned", !.failed = TRUE, !.result = FALSE]

\* searchEmails(criteria, maxResults): connecting, searching or parsing a
\* message may throw (ok = FALSE); the error is logged and thrown again.
searchEmailsCall ==
  /\ call.op = "searchEmails"
  /\ call.pc = "called"
  /\ \E ok \in BOOLEAN :
       call' = IF ok
               THEN [call EXCEPT !.pc = "returned",
                                 !.emails = SearchEmails(call.inbox, call.maxResults)]
               ELSE [call EXCEPT !.pc = "returned", !.failed = TRUE, !.rejected = TRUE]
  /\ UNCHANGED runVars

validateEmailContent ==
  /\ call.op = "validateEmailContent"
  /\ call.pc = "called"
  /\ \E ok \in BOOLEAN :
       LET emails == SearchEmails(call.inbox, 1)
       IN  call' =
             IF ~ok THEN ValidationError(call)
             ELSE IF Len(emails) = 0
             THEN [call EXCEPT !.pc = "returned", !.result = FALSE]
             ELSE [call EXCEPT !.pc = "returned", !.emails = emails,
                               !.result = ContentMatches(emails[1], call.expectedContent,
                                                         call.exactMatch)]
  /\ UNCHANGED runVars

NextEmailContent == searchEmailsCall \/ validateEmailContent

SpecEmailContent == InitEmailContent /\ [][NextEmailContent]_vars

(***************************************************************************)
(* The singletons TestConfig and Logger.  call holds, per class, the       *)
(* static field instance (0 while undefined, else the number of the object *)
(* it refers to), the number of objects constructed, the objects the       *)
(* getInstance calls have returned and the numbers of calls made and of    *)
(* constructor calls that threw.                                           *)
(***************************************************************************)
SingletonClasses == {"TestConfig", "Logger"}

InitSingleton ==
  /\ AtRest
  /\ reporter = "XrayReporter"
  /\ call = [op |-> "getInstance",
             instance |-> [c \in SingletonClasses |-> 0],
             constructed |-> [c \in SingletonClasses |-> 0],
             returned |-> [c \in SingletonClasses |-> {}],
             calls |-> [c \in SingletonClasses |-> 0],
             threw |-> [c \in SingletonClasses |-> 0]]

\* getInstance constructing whatever the static field holds.
ConstructsAlways(instance) == TRUE

\* if (!X.instance)
Constructs(instance) == instance = 0

\* TestConfig.getInstance() on the state st: ok says whether the
\* constructor, when it runs, returns rather than throws.
TestConfigGetInstance(st, ok) ==
  LET c == "TestConfig"
      made == st.constructed[c] + 1
  IN  IF Constructs(st.instance[c])
      THEN IF ok
           THEN [st EXCEPT !.calls[c] = @ + 1, !.constructed[c] = made,
                           !.instance[c] = made, !.returned[c] = @ \cup {made}]
           ELSE [st EXCEPT !.calls[c] = @ + 1, !.threw[c] = @ + 1]
      ELSE [st EXCEPT !.calls[c] = @ + 1, !.returned[c] = @ \cup {st.instance[c]}]

\* Logger.getInstance() on the state st: the constructor first calls
\* TestConfig.getInstance() (okConfig) and throws if that throws; ok says
\* whether the rest of the constructor returns.
LoggerGetInstance(st, okConfig, ok) ==
  LET c == "Logger"
      made == st.constructed[c] + 1
      inner == TestConfigGetInstance(st, okConfig)
  IN  IF Constructs(st.instance[c])
      THEN IF inner.threw["TestConfig"] = st.threw["TestConfig"] /\ ok
           THEN [inner EXCEPT !.calls[c] = @ + 1, !.constructed[c] = made,
                              !.instance[c] = made, !.returned[c] = @ \cup {made}]
           ELSE [inner EXCEPT !.calls[c] = @ + 1, !.threw[c] = @ + 1]
      ELSE [st EXCEPT !.calls[c] = @ + 1, !.returned[c] = @ \cup {st.instance[c]}]

\* A getInstance call by the program.
getInstance(c) ==
  /\ call.op = "getInstance"
  /\ call.calls[c] < MaxCalls
  /\ \E okConfig \in BOOLEAN, ok \in BOOLEAN :
       call' = IF c = "Logger" THEN LoggerGetInstance(call, okConfig, ok)
               ELSE TestConfigGetInstance(call, ok)
  /\ UNCHANGED runVars

NextSingleton == \E c \in SingletonClasses : getInstance(c)

SpecSingleton == InitSingleton /\ [][NextSingleton]_vars

(***************************************************************************)
(* XrayServerClient.ensureTestCaseExists, request by request (SpecEnsure). *)
(***************************************************************************)
\* What the tracker answers to GET /issue/{key}: an issue of type Test, an
\* issue of another type, a response without data, or an error (404).
IssueAnswers == {"Test", "Bug", "noData", "error"}

\* What it answers to POST /search: a matching issue, an empty list, a
\* response without a list, or an error.
SearchAnswers == {"match", "empty", "noIssues", "error"}

\* What it answers to POST /issue: the new key, a response without a key,
\* or an error.
CreateAnswers == {"key", "noKey", "error"}

InitEnsure ==
  /\ AtRest
  /\ reporter = "XrayReporterServer"
  /\ \E issue \in IssueAnswers, search \in SearchAnswers, create \in CreateAnswers :
       call = [op |-> "ensureTestCaseExists", pc |-> "findTestCase",
               testKey |-> GivenKey, issue |-> issue, search |-> search,
               create |-> create, testCase |-> Null, requests |-> <<>>,
               result |-> Null]

\* findTestCase accepting an issue of any type.
IsTestAnyType(answer) == answer \in {"Test", "Bug"}

\* response.data && response.data.fields.issuetype.name === 'Test'
IsTest(answer) == answer = "Test"

\* The key of the issue findTestCase returns, or null; a response without
\* data throws in the else branch and is caught.
findTestCase(testKey, answer) == IF IsTest(answer) THEN testKey ELSE Null

\* The key of the issue findTestCaseByDescription returns, or null.
findTestCaseByDescription(answer) == IF answer = "match" THEN MatchedKey ELSE Null

\* What createTestCase returns.
createTestCase(answer) == IF answer = "key" THEN NewCaseKey ELSE Null

\* let testCase = await this.findTestCase(testKey)
ensureFindTestCase ==
  /\ call.op = "ensureTestCaseExists" /\ call.pc = "findTestCase"
  /\ LET testCase == findTestCase(call.testKey, call.issue)
     IN  call' = [call EXCEPT !.requests = Append(@, "GET"),
                              !.testCase = testCase,
                              !.pc = IF testCase = Null
                                     THEN "findTestCaseByDescription"
                                     ELSE "updateTestCaseSummary"]
  /\ UNCHANGED runVars

\* testCase = await this.findTestCaseByDescription(testTitle)
ensureFindTestCaseByDescription ==
  /\ call.op = "ensureTestCaseExists" /\ call.pc = "findTestCaseByDescription"
  /\ LET testCase == findTestCaseByDescription(call.search)
     IN  call' = [call EXCEPT !.requests = Append(@, "SEARCH"),
                              !.testCase = testCase,
                              !.pc = IF testCase = Null
                                     THEN "createTestCase"
                                     ELSE "updateTestCaseSummary"]
  /\ UNCHANGED runVars

\* const createdKey = await this.createTestCase(...); the key or null is
\* returned.
ensureCreateTestCase ==
  /\ call.op = "ensureTestCaseExists" /\ call.pc = "createTestCase"
  /\ LET createdKey == createTestCase(call.create)
     IN  call' = [call EXCEPT !.requests = Append(@, "POST"),
                              !.testCase = createdKey,
                              !.result = createdKey,
                              !.pc = "done"]
  /\ UNCHANGED runVars

\* await this.updateTestCaseSummary(testCase.key, testTitle) for a test
\* case that was found, then return testCase.key: the summary is looked up
\* again and put when it differs; every failure is caught.
updateTestCaseSummary ==
  /\ call.op = "ensureTestCaseExists" /\ call.pc = "updateTestCaseSummary"
  /\ \E answer \in IssueAnswers, same \in BOOLEAN :
       call' = [call EXCEPT
                  !.requests = IF findTestCase(call.testCase, answer) # Null /\ ~same
                               THEN @ \o <<"GET", "PUT">>
                               ELSE Append(@, "GET"),
                  !.result = call.testCase,
                  !.pc = "done"]
  /\ UNCHANGED runVars

NextEnsure ==
  \/ ensureFindTestCase
  \/ ensureFindTestCaseByDescription
  \/ ensureCreateTestCase
  \/ updateTestCaseSummary

SpecEnsure == InitEnsure /\ [][NextEnsure]_vars

(***************************************************************************)
(* XrayClientHybrid: calls of ensureTestCaseExists and tryCreateTestCase   *)
(* on one client, interleaved at their awaits (SpecHybrid).                *)
(***************************************************************************)
HybridCalls == 1..MaxTryCalls

\* response.data.key of a response that carries no key.
Undefined == <<"undefined">>

InitHybrid ==
  /\ AtRest
  /\ reporter = "XrayReporter"
  /\ call = [op |-> "tryCreateTestCase",
             canCreateIssues |-> TRUE,
             failed |-> FALSE,
             pc |-> [i \in HybridCalls |-> "idle"],
             via |-> [i \in HybridCalls |-> "none"],
             late |-> [i \in HybridCalls |-> FALSE],
             posted |-> [i \in HybridCalls |-> FALSE],
             created |-> [i \in HybridCalls |-> Null],
             result |-> [i \in HybridCalls |-> Null]]

\* The catch block leaving the flag as it is.
CanCreateAfterKept(canCreateIssues, answer) == canCreateIssues

\* canCreateIssues after the create request was answered: the catch block
\* sets it to false, nothing sets it to true.
CanCreateAfter(canCreateIssues, answer) ==
  IF answer = "error" THEN FALSE ELSE canCreateIssues

\* tryCreateTestCase entered by call i, up to its await: with creation
\* disabled it returns null at once, otherwise the create request is sent.
\* late records whether an attempt had failed before the call was made.
EnterTryCreateTestCase(st, i) ==
  IF ~st.canCreateIssues
  THEN [st EXCEPT !.late[i] = st.failed, !.pc[i] = "done"]
  ELSE [st EXCEPT !.late[i] = st.failed, !.posted[i] = TRUE, !.pc[i] = "post"]

\* The calls are numbered in the order they are made.
MayStart(i) ==
  /\ call.op = "tryCreateTestCase"
  /\ call.pc[i] = "idle"
  /\ i > 1 => call.pc[i - 1] # "idle"

\* A call of tryCreateTestCase by the program.
tryCreateTestCase(i) ==
  /\ MayStart(i)
  /\ call' = EnterTryCreateTestCase([call EXCEPT !.via[i] = "tryCreateTestCase"], i)
  /\ UNCHANGED runVars

\* A call of ensureTestCaseExists by the program, up to the await of
\* findTestCase.
ensureTestCaseExistsHybrid(i) ==
  /\ MayStart(i)
  /\ call' = [call EXCEPT !.via[i] = "ensureTestCaseExists", !.pc[i] = "findTestCase"]
  /\ UNCHANGED runVars

\* findTestCase returns to ensureTestCaseExists: the issue, whose key is
\* returned, or null, and then tryCreateTestCase is called.
findTestCaseHybrid(i) ==
  /\ call.op = "tryCreateTestCase"
  /\ call.pc[i] = "findTestCase"
  /\ \E found \in BOOLEAN :
       call' = IF found
               THEN [call EXCEPT !.result[i] = GivenKey, !.pc[i] = "done"]
               ELSE EnterTryCreateTestCase(call, i)
  /\ UNCHANGED runVars

\* The create request of call i is answered: the key of the response is
\* returned, or the catch block runs and null is returned.
\* ensureTestCaseExists returns the created key, or null without one.
createAnswered(i) ==
  /\ call.op = "tryCreateTestCase"
  /\ call.pc[i] = "post"
  /\ \E answer \in CreateAnswers :
       LET createdKey == CASE answer = "key" -> NewCaseKey
                           [] answer = "noKey" -> Undefined
                           [] OTHER -> Null
       IN  call' = [call EXCEPT
                      !.canCreateIssues = CanCreateAfter(@, answer),
                      !.failed = @ \/ answer = "error",
                      !.created[i] = createdKey,
                      !.result[i] = IF answer = "key" THEN NewCaseKey ELSE Null,
                      !.pc[i] = "done"]
  /\ UNCHANGED runVars

NextHybrid ==
  \E i \in HybridCalls :
    \/ tryCreateTestCase(i)
    \/ ensureTestCaseExistsHybrid(i)
    \/ findTestCaseHybrid(i)
    \/ createAnswered(i)

SpecHybrid == InitHybrid /\ [][NextHybrid]_vars

(***************************************************************************)
(* XrayCloudClientAuth.authenticate and getAuthenticatedInstance: callers  *)
(* on one client, interleaved at the await of the authentication request   *)
(* (SpecAuth).  Time is counted in units of 25 minutes.                    *)
(***************************************************************************)
AuthCalls == 1..MaxAuthCalls

\* private accessToken: string | null = null; tokens are numbered from 1 in
\* the order the service grants them.
NoToken == 0

\* 50 * 60 * 1000 ms.
TokenLifetime == 2

\* What the service answers to POST /api/v2/authenticate: a body with an
\* access_token, a body without one, or an error.
AuthAnswers == {"token", "noToken", "error"}

InitAuth ==
  /\ AtRest
  /\ reporter = "XrayReporter"
  /\ call = [op |-> "authenticate",
             accessToken |-> NoToken,
             tokenExpiry |-> 0,
             now |-> 0,
             granted |-> 0,
             pc |-> [i \in AuthCalls |-> "idle"],
             sent |-> [i \in AuthCalls |-> FALSE],
             token |-> [i \in AuthCalls |-> NoToken]]

\* The check of the held token that ignores its expiry.
TokenValidIgnoringExpiry(accessToken, now, tokenExpiry) == accessToken # NoToken

\* this.accessToken && Date.now() < this.tokenExpiry
TokenValid(accessToken, now, tokenExpiry) ==
  accessToken # NoToken /\ now < tokenExpiry

\* getAuthenticatedInstance called by request i, up to the await inside
\* authenticate: a valid held token is returned and the instance carrying
\* it is made, otherwise the authentication request is sent.
getAuthenticatedInstance(i) ==
  /\ call.op = "authenticate"
  /\ call.pc[i] = "idle"
  /\ i > 1 => call.pc[i - 1] # "idle"
  /\ call' = IF TokenValid(call.accessToken, call.now, call.tokenExpiry)
             THEN [call EXCEPT !.token[i] = call.accessToken, !.pc[i] = "instance"]
             ELSE [call EXCEPT !.sent[i] = TRUE, !.pc[i] = "post"]
  /\ UNCHANGED runVars

\* The authentication request of request i is answered: with an
\* access_token the token and its expiry are stored and the token is
\* returned; otherwise the error is logged and thrown again.
authenticate(i) ==
  /\ call.op = "authenticate"
  /\ call.pc[i] = "post"
  /\ \E answer \in AuthAnswers :
       call' = IF answer = "token"
               THEN [call EXCEPT !.granted = @ + 1,
                                 !.accessToken = call.granted + 1,
                                 !.tokenExpiry = call.now + TokenLifetime,
                                 !.token[i] = call.granted + 1,
                                 !.pc[i] = "instance"]
               ELSE [call EXCEPT !.pc[i] = "rejected"]
  /\ UNCHANGED runVars

\* Time passes.
AuthTick ==
  /\ call.op = "authenticate"
  /\ call.now < MaxNow
  /\ call' = [call EXCEPT !.now = @ + 1]
  /\ UNCHANGED runVars

NextAuth ==
  \/ \E i \in AuthCalls : getAuthenticatedInstance(i) \/ authenticate(i)
  \/ AuthTick

SpecAuth == InitAuth /\ [][NextAuth]_vars

(***************************************************************************)
(* updateAllTestCaseStatuses of XrayClientFull and XrayCloudClient, one    *)
(* awaited request at a time (SpecStatuses).  The results are numbered     *)
(* 1..n in the order of the list.                                          *)
(***************************************************************************)
StatusClients == {"XrayClientFull", "XrayCloudClient"}

InitStatuses ==
  /\ AtRest
  /\ reporter = "XrayReporterFull"
  /\ \E client \in StatusClients, n \in 0..MaxStatusResults :
       call = [op |-> "updateAllTestCaseStatuses", client |-> client, n |-> n,
               i |-> 1, pc |-> IF n = 0 THEN "summary" ELSE "findTestCase",
               attempted |-> <<>>, puts |-> <<>>, logged |-> <<>>,
               successCount |-> 0, summary |-> FALSE, rejected |-> FALSE]

\* The end of one call of updateTestCaseStatus inside the for loop: the
\* next result, or the line after the loop.
NextResult(c) ==
  [c EXCEPT !.i = c.i + 1,
            !.pc = IF c.i < c.n THEN "findTestCase" ELSE "summary"]

\* The catch block of updateTestCaseStatus throwing the error again.
StatusErrorRethrown(c) ==
  [c EXCEPT !.logged = Append(@, "error"), !.pc = "returned", !.rejected = TRUE]

\* catch (error) { this.logger.error(...) }: the error is logged and
\* updateTestCaseStatus returns (false, in the cloud client).
StatusError(c) == NextResult([c EXCEPT !.logged = Append(@, "error")])

\* const testCase = await this.findTestCase(testKey): findTestCase catches
\* every failure of the lookup and returns null, and a missing test case is
\* logged as a warning.
statusFindTestCase ==
  /\ call.op = "updateAllTestCaseStatuses"
  /\ call.pc = "findTestCase"
  /\ \E found \in BOOLEAN :
       LET c == [call EXCEPT !.attempted = Append(@, call.i)]
       IN  call' = IF found THEN [c EXCEPT !.pc = "put"]
                   ELSE NextResult([c EXCEPT !.logged = Append(@, "warn")])
  /\ UNCHANGED runVars

\* await this.axiosInstance.put(...) and the rest of updateTestCaseStatus.
statusPut ==
  /\ call.op = "updateAllTestCaseStatuses"
  /\ call.pc = "put"
  /\ \E ok \in BOOLEAN :
       LET c == [call EXCEPT !.puts = Append(@, call.i)]
       IN  call' = IF ok
                   THEN NextResult([c EXCEPT !.logged = Append(@, "info"),
                                             !.successCount = @ + 1])
                   ELSE StatusError(c)
  /\ UNCHANGED runVars

\* this.logger.info(`Updated statuses for ...`) after the loop.
statusSummary ==
  /\ call.op = "updateAllTestCaseStatuses"
  /\ call.pc = "summary"
  /\ call' = [call EXCEPT !.summary = TRUE, !.pc = "returned"]
  /\ UNCHANGED runVars

NextStatuses == statusFindTestCase \/ statusPut \/ statusSummary

SpecStatuses == InitStatuses /\ [][NextStatuses]_vars

(***************************************************************************)
(* createTestExecution of XrayCloudClient, XrayServerClient and            *)
(* XrayClientHybrid, one awaited call at a time (SpecCreateExec).  The     *)
(* tests of the execution are numbered 1..n.                               *)
(***************************************************************************)
ExecClients == {"XrayCloudClient", "XrayServerClient", "XrayClientHybrid"}

InitCreateExec ==
  /\ AtRest
  /\ reporter = "XrayReporterServer"
  /\ \E client \in ExecClients, n \in 0..MaxExecTests :
       call = [op |-> "createTestExecution", client |-> client, n |-> n, i |-> 1,
               pc |-> "for", existingTestCases |-> <<>>, posted |-> FALSE,
               answer |-> "none", result |-> Null, rejected |-> FALSE]

\* createTestExecution posting whatever the list holds.
NoTestCasesUnchecked(existingTestCases) == FALSE

\* existingTestCases.length === 0
NoTestCases(existingTestCases) == Len(existingTestCases) = 0

\* What createTestExecution returns for an answer to its post: the server
\* client returns the key of the response or null; the cloud and hybrid
\* clients return response.data.key || response.data.testExecutionKey,
\* undefined for a response with neither; the catch block returns null.
ExecutionKeyOf(client, answer) ==
  CASE answer = "key" -> NewExecKey(1)
    [] answer = "noKey" -> IF client = "XrayServerClient" THEN Null ELSE Undefined
    [] OTHER -> Null

\* for (const test of execution.tests): the loop's test, and after the
\* loop the return of null for an empty list.
createExecFor ==
  /\ call.op = "createTestExecution"
  /\ call.pc = "for"
  /\ call' = IF call.i <= call.n THEN [call EXCEPT !.pc = "ensure"]
             ELSE IF NoTestCases(call.existingTestCases)
             THEN [call EXCEPT !.pc = "returned", !.result = Null]
             ELSE [call EXCEPT !.pc = "post"]
  /\ UNCHANGED runVars

\* await this.ensureTestCaseExists(...) (cloud, server) or
\* await this.findTestCase(...) (hybrid) for test i: neither throws; a test
\* with a test case is pushed, another is logged.
createExecEnsure ==
  /\ call.op = "createTestExecution"
  /\ call.pc = "ensure"
  /\ \E found \in BOOLEAN :
       call' = [call EXCEPT
                  !.existingTestCases = IF found THEN Append(@, call.i) ELSE @,
                  !.i = @ + 1,
                  !.pc = "for"]
  /\ UNCHANGED runVars

\* await this.axiosInstance.post(...) and the return.
createExecPost ==
  /\ call.op = "createTestExecution"
  /\ call.pc = "post"
  /\ \E answer \in CreateAnswers :
       call' = [call EXCEPT !.posted = TRUE, !.answer = answer,
                            !.result = ExecutionKeyOf(call.client, answer),
                            !.pc = "returned"]
  /\ UNCHANGED runVars

NextCreateExec == createExecFor \/ createExecEnsure \/ createExecPost

SpecCreateExec == InitCreateExec /\ [][NextCreateExec]_vars

(***************************************************************************)
(* The final execution status of reportToXray, as a function of the list   *)
(* of results (SpecFinalStatus).                                           *)
(***************************************************************************)
\* The statuses a result can hold when the run ends: what onTestEnd stored,
\* or EXECUTING for a test that began and did not end.
ResultStatuses == {mapTestStatus(s) : s \in RunnerStatuses} \cup {"EXECUTING"}

\* Array.from(this.testResults.values()), which reportToXray reports only
\* when it is not empty.
FinalResults ==
  {[i \in 1..Len(s) |-> [status |-> s[i]]] :
     s \in SeqsUpTo(ResultStatuses, MaxFinalResults) \ {<<>>}}

InitFinalStatus ==
  /\ AtRest
  /\ reporter = "XrayReporter"
  /\ \E results \in FinalResults :
       call = [op |-> "finalStatus", results |-> results, pc |-> "hasFailures",
               finalStatus |-> "none"]

\* A run counted as failed as soon as one result is not PASSED.
hasFailuresNotPassed(results) ==
  \E i \in 1..Len(results) : results[i].status # "PASSED"

\* results.some(r => r.status === 'FAILED')
hasFailures(results) ==
  \E i \in 1..Len(results) : results[i].status = "FAILED"

\* hasFailures ? 'FAILED' : 'PASSED'
finalStatus(results) == IF hasFailures(results) THEN "FAILED" ELSE "PASSED"

\* The two lines of reportToXray that compute the final status.
ComputeFinalStatus ==
  /\ call.op = "finalStatus"
  /\ call.pc = "hasFailures"
  /\ call' = [call EXCEPT !.finalStatus = finalStatus(call.results), !.pc = "computed"]
  /\ UNCHANGED runVars

NextFinalStatus == ComputeFinalStatus

SpecFinalStatus == InitFinalStatus /\ [][NextFinalStatus]_vars

(***************************************************************************)
(* Properties.                                                             *)
(***************************************************************************)
LogIdx == 1..Len(log)

\* A test execution the tracker accepted: the request carries its key.
ExecCreatedAt(i) == log[i].op = "createExec" /\ log[i].exec # NoKey

\* C1, as the specification words it: in every reporter, a status update of
\* a test is sent only after the test case of that test has been ensured
\* and, after that, a test execution has been created.
C1_Original ==
  \A i \in LogIdx :
    log[i].op = "status" =>
      \E j \in LogIdx, k \in LogIdx :
        /\ j < k /\ k < i
        /\ log[j].op = "ensure" /\ log[j].test = log[i].test
        /\ log[k].op = "createExec"

\* The enhanced server reporter: every status update follows the ensuring
\* of all test cases, that of its own test among them, and goes to a test
\* execution that an earlier run of the day left in the tracker or that was
\* created after the ensuring and before the update.
C1_ServerOrder ==
  reporter = "XrayReporterServer" =>
    \A i \in LogIdx :
      log[i].op = "status" =>
        /\ \E j \in LogIdx : j < i /\ log[j].op = "ensure" /\ log[j].test = log[i].test
        /\ \A j \in LogIdx : log[j].op = "ensure" => j < i
        /\ \/ \E e \in EarlierRun : e.key = log[i].exec
           \/ \E k \in LogIdx :
                /\ k < i
                /\ log[k] = Ev("createExec", 0, log[i].exec)
                /\ \E j \in LogIdx : j < k /\ log[j].op = "ensure" /\ log[j].test = log[i].test

\* The full reporter: the status updates are sent first; test cases are
\* ensured and the test execution is created after all of them.
C1_FullOrder ==
  reporter = "XrayReporterFull" =>
    \A i \in LogIdx, j \in LogIdx :
      log[i].op = "status" /\ log[j].op \in {"ensure", "createExec"} => i < j

\* C1, amended: the order ensure, create execution, update status is that
\* of the enhanced server reporter (where the execution of the day is
\* created only if the tracker does not hold one); the full reporter sends
\* its status updates before it ensures test cases and creates the
\* execution.
C1_Amended == C1_ServerOrder /\ C1_FullOrder

\* The server reporter has ensured a test case, created the execution and
\* sent the status of that test to it, in this order.
C1_Witness ==
  /\ reporter = "XrayReporterServer"
  /\ \E j \in LogIdx, k \in LogIdx, i \in LogIdx :
       /\ j < k /\ k < i
       /\ log[j].op = "ensure"
       /\ ExecCreatedAt(k)
       /\ log[i] = Ev("status", log[j].test, log[k].exec)

\* C2: onEnd never rejects; whatever reportToXray throws, the promise onEnd
\* returns is resolved once onEnd is over.
C2_OnEndNeverRejects ==
  /\ onEndResult # "rejected"
  /\ pc = "done" => onEndResult = "resolved"

\* reportToXray has thrown and onEnd has completed normally.
C2_Witness == pc = "done" /\ thrown /\ onEndResult = "resolved" /\ log # <<>>

\* C3: validateConfig is true exactly when jiraBaseUrl, jiraUsername,
\* jiraApiToken and projectKey are all non-empty, and with an incomplete
\* configuration no request reaches the tracker and no file is written.
C3_IncompleteConfigSkips ==
  config # NoConfig =>
    LET complete == /\ config["jiraBaseUrl"] # ""
                    /\ config["jiraUsername"] # ""
                    /\ config["jiraApiToken"] # ""
                    /\ config["projectKey"] # ""
    IN  /\ validateConfig(config) <=> complete
        /\ ~complete => /\ log = <<>>
                        /\ created = 0
                        /\ keyFile = NoKey
                        /\ ~resultsFile.written
                        /\ pc = "done"

\* onEnd has returned with results collected and only projectKey missing.
C3_Witness ==
  /\ pc = "done"
  /\ N > 0
  /\ config # NoConfig
  /\ config["projectKey"] = ""
  /\ \A f \in RequiredFields \ {"projectKey"} : config[f] # ""

\* What the documented patterns say, stated without the scan: a key is
\* capital letters, a hyphen and digits.
KeyForm(k) ==
  \E u \in 1..Len(k) :
    /\ u + 2 <= Len(k)
    /\ \A i \in 1..u : k[i] \in Upper
    /\ k[u + 1] = "-"
    /\ \A i \in (u + 2)..Len(k) : k[i] \in Digit

Prefixes(s) == {SubSeq(s, 1, n) : n \in 0..Len(s)}

\* The keys a title begins with, each followed by a colon.
TitleKeys(title) ==
  {k \in Prefixes(title) : KeyForm(k) /\ Len(k) < Len(title) /\ title[Len(k) + 1] = ":"}

\* The keys the base name of a file begins with.
FileKeys(file) == {k \in Prefixes(basename(file)) : KeyForm(k)}

Longest(S) == CHOOSE k \in S : \A o \in S : Len(o) <= Len(k)

\* C4: extractTestKey returns the key the title begins with (followed by a
\* colon) if there is one, whatever the file is called; otherwise the key
\* the base name of the file begins with; otherwise no key.  (For the
\* TypeScript reporter: when the test has no annotation of type xray.)
C4_ExtractTestKey ==
  (/\ call.op = "extractTestKey"
   /\ call.returned
   /\ reporter = "XrayReporter" \/ FindXray(call.test.annotations, 1) = 0)
  =>
    LET tk == TitleKeys(call.test.title)
        fk == FileKeys(call.test.file)
    IN  call.result = IF tk # {} THEN Longest(tk)
                      ELSE IF fk # {} THEN Longest(fk)
                      ELSE Null

\* extractTestKey has returned for a test whose title and file name carry
\* different keys.
C4_Witness ==
  /\ call.op = "extractTestKey"
  /\ call.returned
  /\ reporter = "XrayReporter"
  /\ TitleKeys(call.test.title) # {}
  /\ FileKeys(call.test.file) # {}
  /\ Longest(FileKeys(call.test.file)) # Longest(TitleKeys(call.test.title))
  /\ call.result = Longest(TitleKeys(call.test.title))

\* C5: with the reporter playwright.config.ts configures, a test that has
\* ended and carries its key only in an annotation of type xray has its
\* result recorded under the key of the annotation.
C5_AnnotationKey ==
  reporter = "XrayReporter" /\ phase[3] = "ended" =>
    /\ MapHas(testResults, 3)
    /\ MapGet(testResults, 3).testKey =
         TestOf(3).annotations[FindXray(TestOf(3).annotations, 1)].description

\* C6: when onEnd is over after a run with a keyed result, a complete
\* configuration, outputDir set and a test execution the tracker accepted,
\* xray-execution-key.txt holds the key of that execution.
C6_KeyFileWritten ==
  (/\ reporter = "XrayReporter"
   /\ pc = "done"
   /\ options.outputDir
   /\ N > 0
   /\ config # NoConfig
   /\ validateConfig(config)
   /\ \E i \in LogIdx : ExecCreatedAt(i))
  => \E i \in LogIdx : ExecCreatedAt(i) /\ keyFile = log[i].exec

\* C7: when onEnd is over, every test execution the reporter created has
\* been followed by the update of its final status.
C7_FinalStatusSent ==
  reporter = "XrayReporter" /\ pc = "done" =>
    \A i \in LogIdx :
      ExecCreatedAt(i) =>
        \E j \in LogIdx : j > i /\ log[j] = Ev("execStatus", 0, log[i].exec)

\* C8: with the option testExecutionKey set, no test execution is created,
\* and results are added to the execution the option names only.
C8_UsesGivenExecution ==
  options.testExecutionKey # NoKey =>
    \A i \in LogIdx :
      /\ log[i].op # "createExec"
      /\ log[i].op = "add" => log[i].exec = options.testExecutionKey

\* C9: during one onEnd at most one issue of type Test Execution is created.
C9_OneExecution == created <= 1

\* C10: constructing Environment without BASE_URL throws with the error
\* "BASE_URL is required"; with BASE_URL set, missing Azure, e-mail or SFTP
\* settings only warn and the construction succeeds.
C10_BaseUrlRequired ==
  call.op = "Environment" /\ call.returned =>
    IF call.env["BASE_URL"] \in {"undefined", ""}
    THEN call.threw /\ "BASE_URL is required" \in call.errors
    ELSE ~call.threw

\* C11: waitForFile never rejects; a poll that finds the file ends the call
\* at once with true, and false is returned only when the timeout has
\* elapsed and no poll has found the file.
C11_WaitForFile ==
  call.op = "waitForFile" =>
    /\ ~call.rejected
    /\ call.found > 0 => call.pc = "returned" /\ call.result /\ call.found = 1
    /\ call.pc = "returned" /\ call.result => call.found = 1
    /\ call.pc = "returned" /\ ~call.result => call.found = 0 /\ call.now >= call.timeoutMs

\* waitForFile has returned false after a failed check and a poll that did
\* not find the file.
C11_Witness ==
  /\ call.op = "waitForFile"
  /\ call.pc = "returned"
  /\ ~call.result
  /\ call.errors > 0
  /\ call.polls > call.errors

\* C12: waitForEmail terminates; it returns the first message of the first
\* search that finds one, and null only once the timeout has elapsed with
\* no search having found a message; it never rejects.
C12_WaitForEmail ==
  /\ [](call.op = "waitForEmail" =>
          /\ ~call.rejected
          /\ call.matches > 0 =>
               /\ call.pc = "returned"
               /\ call.matches = 1
               /\ call.seen # <<>>
               /\ call.result = Head(call.seen)
          /\ call.pc = "returned" /\ call.matches = 0 =>
               call.result = NoEmail /\ call.now >= call.timeoutMs)
  /\ <>(call.pc = "returned")

\* waitForEmail has returned null after searches every one of which threw.
C12_Witness ==
  /\ call.op = "waitForEmail"
  /\ call.pc = "returned"
  /\ call.result = NoEmail
  /\ call.searches > 1
  /\ call.errors = call.searches

\* C13, as the specification words it: validateFile never throws, and it
\* returns true exactly when no request failed, the blob exists, its size
\* is the expected one if one is given and its content type is the expected
\* one if one is given (any value passed counts as given).
C13_Original ==
  call.op = "validateFile" /\ call.pc = "returned" =>
    LET info == BlobInfoOf(call.blob)
    IN  /\ ~call.rejected
        /\ call.result <=>
             /\ ~call.failed
             /\ call.blob.present
             /\ call.expectedSize.given => info.size = call.expectedSize.value
             /\ call.expectedContentType.given =>
                  info.contentType = call.expectedContentType.value

\* C13, amended: as above, but an expected content type that is the empty
\* string counts as not given; the blob's content type is the one BlobInfo
\* carries ("unknown" when the service reports none).
C13_Amended ==
  call.op = "validateFile" /\ call.pc = "returned" =>
    LET info == BlobInfoOf(call.blob)
    IN  /\ ~call.rejected
        /\ call.result <=>
             /\ ~call.failed
             /\ call.blob.present
             /\ call.expectedSize.given => info.size = call.expectedSize.value
             /\ call.expectedContentType.given /\ call.expectedContentType.value # "" =>
                  info.contentType = call.expectedContentType.value

\* validateFile has returned true with a size and a content type expected.
C13_Witness ==
  /\ call.op = "validateFile"
  /\ call.pc = "returned"
  /\ call.result
  /\ call.expectedSize.given
  /\ call.expectedContentType.given
  /\ call.expectedContentType.value # ""

\* C14: blobExists never rejects and resolves to false for a missing blob
\* and when the check fails; for a missing blob getBlobInfo and
\* downloadContent reject with the error the service request raised.
C14_MissingBlob ==
  call.op \in {"blobExists", "getBlobInfo", "downloadContent"} /\ call.pc = "returned" =>
    /\ call.op = "blobExists" =>
         /\ ~call.rejected
         /\ ~call.blob.present \/ call.failed => ~call.result
    /\ call.op # "blobExists" /\ ~call.blob.present =>
         /\ call.rejected
         /\ call.error = IF call.failed THEN "ServiceError" ELSE "BlobNotFound"

\* getBlobInfo has rejected for a missing blob with the service's answer.
C14_Witness ==
  /\ call.op = "getBlobInfo"
  /\ call.pc = "returned"
  /\ ~call.blob.present
  /\ call.rejected
  /\ call.error = "BlobNotFound"

\* C15: with no matching message searchEmails resolves to the empty list
\* and validateEmailContent to false; validateEmailContent never rejects
\* and returns false when the search fails (and true only for a first
\* message whose body matches).
C15_NoMatch ==
  call.pc = "returned" =>
    /\ call.op = "searchEmails" /\ call.inbox = <<>> /\ ~call.failed =>
         ~call.rejected /\ call.emails = <<>>
    /\ call.op = "validateEmailContent" =>
         /\ ~call.rejected
         /\ call.inbox = <<>> \/ call.failed => ~call.result
         /\ call.result =>
              \/ call.exactMatch /\ call.inbox[1] = call.expectedContent
              \/ ~call.exactMatch /\ Includes(call.inbox[1], call.expectedContent)

\* validateEmailContent has returned false because the search failed,
\* although the first message matches.
C15_Witness ==
  /\ call.op = "validateEmailContent"
  /\ call.pc = "returned"
  /\ call.failed
  /\ ~call.result
  /\ call.inbox # <<>>
  /\ call.exactMatch
  /\ call.inbox[1] = call.expectedContent

\* C16: after any sequence of getInstance calls at most one TestConfig and
\* at most one Logger have been constructed, and all calls of a class have
\* returned the same object.
C16_Singletons ==
  call.op = "getInstance" =>
    \A c \in SingletonClasses :
      /\ call.constructed[c] <= 1
      /\ Cardinality(call.returned[c]) <= 1

\* Both classes have answered several getInstance calls, one of them after
\* a constructor call that threw.
C16_Witness ==
  /\ call.op = "getInstance"
  /\ \A c \in SingletonClasses :
       call.calls[c] - call.threw[c] >= 2 /\ call.constructed[c] = 1
  /\ \E c \in SingletonClasses : call.threw[c] > 0

\* C17: when onEnd of the reporter of xray-reporter-server.js is over and
\* step 1 has run, every result has had its execution comment sent, and
\* with outputDir set xray-server-results.json has been written with
\* totalTests the number of results.
C17_ServerReporterSteps ==
  (/\ reporter = "XrayReporterServerJs"
   /\ pc = "done"
   /\ \E i \in LogIdx : log[i].op = "find")
  =>
    /\ \A t \in Ids : \E i \in LogIdx : log[i] = Ev("comment", testResults[t].id, NoKey)
    /\ options.outputDir => resultsFile.written /\ resultsFile.totalTests = N

\* C18: every onTestEnd of a test that has a key records for it PASSED when
\* the runner's status is passed, SKIPPED when it is skipped and FAILED for
\* failed, timedOut and anything else; so a recorded result of a test that
\* has ended is PASSED, FAILED or SKIPPED.
C18_MapTestStatus ==
  [][\A t \in Tests, playwrightStatus \in RunnerStatuses :
       onTestEnd(t, playwrightStatus) /\ Truthy(KeyOf(reporter, t)) =>
         /\ MapHas(testResults', t)
         /\ MapGet(testResults', t).status =
              IF playwrightStatus = "passed" THEN "PASSED"
              ELSE IF playwrightStatus = "skipped" THEN "SKIPPED"
              ELSE "FAILED"
         /\ MapGet(testResults', t).status \in {"PASSED", "FAILED", "SKIPPED"}]_vars

\* Two tests have ended, one recorded as FAILED and one as SKIPPED.
C18_Witness ==
  \E t \in Tests, u \in Tests :
    /\ phase[t] = "ended" /\ MapHas(testResults, t)
    /\ phase[u] = "ended" /\ MapHas(testResults, u)
    /\ MapGet(testResults, t).status = "FAILED"
    /\ MapGet(testResults, u).status = "SKIPPED"

\* The requests of the call of ensureTestCaseExists so far.
Sent(r) == \E i \in 1..Len(call.requests) : call.requests[i] = r

\* C19: ensureTestCaseExists first looks the test case up by key, searches
\* by description only when that finds no issue of type Test, and sends a
\* create request only when both lookups return nothing; it returns the key
\* of the found or created case, and null exactly when the create request
\* was sent and gave no key. An issue of another type counts as not found.
C19_EnsureTestCaseExists ==
  call.op = "ensureTestCaseExists" /\ call.pc = "done" =>
    LET byKey == call.issue = "Test"
        byDescription == call.search = "match"
    IN  /\ call.requests[1] = "GET"
        /\ Sent("SEARCH") <=> ~byKey
        /\ Sent("POST") <=> ~byKey /\ ~byDescription
        /\ Sent("SEARCH") /\ Sent("POST") =>
             call.requests = <<"GET", "SEARCH", "POST">>
        /\ call.result = IF byKey THEN call.testKey
                         ELSE IF byDescription THEN MatchedKey
                         ELSE IF call.create = "key" THEN NewCaseKey
                         ELSE Null
        /\ call.result = Null <=> Sent("POST") /\ call.create # "key"
        /\ call.issue = "Bug" => Sent("SEARCH")

\* The key names an issue that is not a Test, the search matches nothing,
\* and the call has returned the key of the test case it created.
C19_Witness ==
  /\ call.op = "ensureTestCaseExists" /\ call.pc = "done"
  /\ call.issue = "Bug"
  /\ call.search = "empty"
  /\ call.requests = <<"GET", "SEARCH", "POST">>
  /\ call.result = NewCaseKey

\* C20: once a create request of the hybrid client has failed,
\* canCreateIssues is false and stays false, and every tryCreateTestCase
\* call made after the failure sends no create request and returns null
\* (so does the ensureTestCaseExists call that made it).
C20_CreationStaysDisabled ==
  /\ [](call.op = "tryCreateTestCase" /\ call.failed =>
          [](~call.canCreateIssues))
  /\ [](call.op = "tryCreateTestCase" =>
          \A i \in HybridCalls :
            call.late[i] =>
              /\ ~call.posted[i]
              /\ call.pc[i] = "done"
              /\ call.created[i] = Null
              /\ call.result[i] = Null)

\* A create request has failed, and afterwards one call of
\* tryCreateTestCase and one of ensureTestCaseExists have returned null.
C20_Witness ==
  /\ call.op = "tryCreateTestCase"
  /\ call.failed
  /\ \E i \in HybridCalls, j \in HybridCalls :
       /\ call.via[i] = "tryCreateTestCase" /\ call.late[i] /\ call.pc[i] = "done"
       /\ call.via[j] = "ensureTestCaseExists" /\ call.late[j] /\ call.pc[j] = "done"
       /\ call.result[i] = Null /\ call.result[j] = Null

\* C21: a call of authenticate sends an authentication request exactly when
\* no token is held or the time has reached the held token's expiry, and
\* otherwise returns the held token; a failed authentication rejects and
\* leaves the held token and its expiry as they were; every instance that
\* getAuthenticatedInstance makes carries a token that a successful
\* authentication returned.
C21_Authenticate ==
  /\ [][call.op = "authenticate" =>
          \A i \in AuthCalls :
            /\ call.pc[i] = "idle" /\ call'.pc[i] # "idle" =>
                 /\ call'.sent[i] <=>
                      (call.accessToken = NoToken \/ call.now >= call.tokenExpiry)
                 /\ ~call'.sent[i] =>
                      call'.pc[i] = "instance" /\ call'.token[i] = call.accessToken
            /\ call.pc[i] = "post" /\ call'.pc[i] = "rejected" =>
                 /\ call'.accessToken = call.accessToken
                 /\ call'.tokenExpiry = call.tokenExpiry]_vars
  /\ [](call.op = "authenticate" =>
          \A i \in AuthCalls :
            /\ call.pc[i] = "instance" => call.token[i] \in 1..call.granted
            /\ call.pc[i] # "instance" => call.token[i] = NoToken)

\* A token was held, an authentication made after its expiry failed and
\* left it held, and an earlier request carries it.
C21_Witness ==
  /\ call.op = "authenticate"
  /\ call.accessToken # NoToken
  /\ call.now >= call.tokenExpiry
  /\ \E i \in AuthCalls, j \in AuthCalls :
       /\ call.pc[i] = "instance" /\ ~call.sent[i] /\ call.token[i] = call.accessToken
       /\ call.pc[j] = "rejected"
       /\ i < j

\* C22: updateAllTestCaseStatuses never rejects; it attempts the results in
\* the order of the list, one log entry for each attempt that is over, and
\* when it has returned every result was attempted, whatever the earlier
\* attempts found: a missing test case and a failed update are logged.
C22_UpdateAllTestCaseStatuses ==
  call.op = "updateAllTestCaseStatuses" =>
    /\ ~call.rejected
    /\ \A j \in 1..Len(call.attempted) : call.attempted[j] = j
    /\ \A j \in 1..Len(call.puts) :
         /\ call.puts[j] \in 1..Len(call.attempted)
         /\ j > 1 => call.puts[j - 1] < call.puts[j]
    /\ Len(call.logged) = IF call.pc = "put" THEN Len(call.attempted) - 1
                          ELSE Len(call.attempted)
    /\ \A j \in 1..Len(call.logged) :
         call.logged[j] = "warn" <=> \A k \in 1..Len(call.puts) : call.puts[k] # j
    /\ call.pc = "returned" =>
         /\ Len(call.attempted) = call.n
         /\ call.summary
         /\ call.successCount =
              Cardinality({j \in 1..Len(call.logged) : call.logged[j] = "info"})

\* The call has returned after a missing test case for the first result, a
\* failed update for the second and a successful update for the third.
C22_Witness ==
  /\ call.op = "updateAllTestCaseStatuses"
  /\ call.pc = "returned"
  /\ call.attempted = <<1, 2, 3>>
  /\ call.puts = <<2, 3>>
  /\ call.logged = <<"warn", "error", "info">>

\* C23: createTestExecution of the cloud, server and hybrid clients never
\* rejects; when no test case could be found or ensured it posts nothing
\* and returns null, it posts only with at least one test case, and it
\* returns null when the post fails.
C23_CreateTestExecution ==
  call.op = "createTestExecution" =>
    /\ ~call.rejected
    /\ call.posted => call.existingTestCases # <<>>
    /\ call.pc = "returned" =>
         /\ call.existingTestCases = <<>> => ~call.posted /\ call.result = Null
         /\ call.existingTestCases # <<>> => call.posted
         /\ call.posted /\ call.answer = "error" => call.result = Null
         /\ call.posted /\ call.answer = "key" => call.result = NewExecKey(1)

\* A call with two tests, neither of which has a test case, has returned
\* null without posting.
C23_Witness ==
  /\ call.op = "createTestExecution"
  /\ call.pc = "returned"
  /\ call.n = 2
  /\ call.existingTestCases = <<>>
  /\ ~call.posted
  /\ call.result = Null

\* C24: the final execution status is FAILED if and only if at least one
\* reported result has status FAILED, and PASSED otherwise; results that
\* are all SKIPPED or EXECUTING give PASSED.
C24_FinalStatus ==
  call.op = "finalStatus" /\ call.pc = "computed" =>
    LET failed == {i \in 1..Len(call.results) : call.results[i].status = "FAILED"}
    IN  /\ call.finalStatus = "FAILED" <=> Cardinality(failed) >= 1
        /\ call.finalStatus # "FAILED" => call.finalStatus = "PASSED"
        /\ (\A i \in 1..Len(call.results) :
              call.results[i].status \in {"SKIPPED", "EXECUTING"}) =>
             call.finalStatus = "PASSED"

\* A run with one SKIPPED result and one still EXECUTING, and no other, has
\* the final status PASSED.
C24_Witness ==
  /\ call.op = "finalStatus" /\ call.pc = "computed"
  /\ call.results = <<[status |-> "SKIPPED"], [status |-> "EXECUTING"]>>
  /\ call.finalStatus = "PASSED"

\* C25: while tests run, in any interleaving of onTestBegin and onTestEnd
\* including retries, the result map holds at most one entry per test id
\* and entries only for tests that have a key; the entry of a test holds
\* EXECUTING after its onTestBegin and the mapped status after its
\* onTestEnd; and a callback for one test leaves the entries of the other
\* tests as they were.
C25_ResultMap ==
  /\ [](pc = "run" =>
          /\ \A i \in 1..Len(testResults), j \in 1..Len(testResults) :
               testResults[i].id = testResults[j].id => i = j
          /\ \A i \in 1..Len(testResults) :
               /\ testResults[i].id \in Tests
               /\ Truthy(KeyOf(reporter, testResults[i].id))
               /\ testResults[i].testKey = KeyOf(reporter, testResults[i].id)
          /\ \A t \in Tests :
               /\ phase[t] = "idle" => ~MapHas(testResults, t)
               /\ phase[t] # "idle" /\ Truthy(KeyOf(reporter, t)) =>
                    /\ MapHas(testResults, t)
                    /\ phase[t] = "running" =>
                         MapGet(testResults, t).status = "EXECUTING"
                    /\ phase[t] = "ended" =>
                         MapGet(testResults, t).status \in {"PASSED", "FAILED", "SKIPPED"})
  /\ [][\A t \in Tests :
          (onTestBegin(t) \/ \E s \in RunnerStatuses : onTestEnd(t, s)) =>
            /\ \A s \in RunnerStatuses :
                 onTestEnd(t, s) /\ MapHas(testResults', t) =>
                   MapGet(testResults', t).status = mapTestStatus(s)
            /\ \A u \in Tests \ {t} :
                 /\ MapHas(testResults', u) <=> MapHas(testResults, u)
                 /\ MapHas(testResults, u) =>
                      MapGet(testResults', u) = MapGet(testResults, u)]_vars

\* Three tests interleaved: one has ended FAILED, one is running with the
\* entry EXECUTING, and one without a key has ended and has no entry.
C25_Witness ==
  /\ pc = "run"
  /\ Len(testResults) = 2
  /\ \E t \in Tests, u \in Tests, v \in Tests :
       /\ phase[t] = "ended" /\ MapHas(testResults, t)
       /\ MapGet(testResults, t).status = "FAILED"
       /\ phase[u] = "running" /\ MapHas(testResults, u)
       /\ MapGet(testResults, u).status = "EXECUTING"
       /\ phase[v] = "ended" /\ ~MapHas(testResults, v)

====
